---- MODULE Spec2Model ----
(***************************************************************************)
(* Verification model of axm-core:                                         *)
(*   - the Spectra mount runtime (spectra/axiom_runtime/engine.py, db.py,  *)
(*     sqlgate.py, util.py, transport.py)                                  *)
(*   - the artifact registry (registry/resolve.py)                         *)
(*   - the pinning commands of axm_cli.py                                *)
(*   - the generic compiler and the Merkle tree                            *)
(*     (genesis/axm_build/compiler_generic.py, common.py, merkle.py)       *)
(* Hashes (uuid5 of the mount key and its 12-hex-digit prefix) are modelled *)
(* as collision-free: a digest is represented by the value it was computed *)
(* from.                                                                   *)
(***************************************************************************)
EXTENDS Integers, Sequences, FiniteSets, TLC

\* ------------------------------------------------------------------------
\* Bounds of the model
\* ------------------------------------------------------------------------
MaxEvents == 4   \* rows in the catalog's system_events table
MaxTemp == 2     \* decrypted temporary directories on disk at one time
MaxRemoved == 1  \* shard paths removed from disk by the environment

\* ------------------------------------------------------------------------
\* util.py
\* ------------------------------------------------------------------------
IdentMax == 64

\* characters matched by [a-zA-Z0-9_] among the characters the model uses
SafeChars == {"a", "b", "x", "1", "2", "_"}

RECURSIVE LStrip(_, _)
LStrip(s, cs) == IF s # <<>> /\ Head(s) \in cs THEN LStrip(Tail(s), cs) ELSE s

RECURSIVE RStrip(_, _)
RStrip(s, cs) ==
  IF s # <<>> /\ s[Len(s)] \in cs THEN RStrip(SubSeq(s, 1, Len(s) - 1), cs) ELSE s

\* _SAFE_IDENT_RE.sub("_", s): every maximal run of unsafe characters
\* becomes one underscore
RECURSIVE SubUnsafe(_, _)
SubUnsafe(s, inRun) ==
  IF s = <<>> THEN <<>>
  ELSE IF Head(s) \in SafeChars THEN <<Head(s)>> \o SubUnsafe(Tail(s), FALSE)
  ELSE IF inRun THEN SubUnsafe(Tail(s), TRUE)
  ELSE <<"_">> \o SubUnsafe(Tail(s), TRUE)

sanitize_identifier(s) ==
  LET s1 == RStrip(LStrip(s, {" "}), {" "})
      s2 == SubUnsafe(s1, FALSE)
      s3 == RStrip(LStrip(s2, {"_"}), {"_"})
  IN IF s3 = <<>> THEN <<"x">>
     ELSE SubSeq(s3, 1, IF Len(s3) < IdentMax THEN Len(s3) ELSE IdentMax)

\* ------------------------------------------------------------------------
\* sqlgate.py: a SQL text is a sequence of lexemes [k, v]; k is the word as
\* written (" " is whitespace, ";" separates statements), v the view name
\* when the lexeme is an identifier
\* ------------------------------------------------------------------------
Kw(k) == [k |-> k, v |-> <<>>]
Id(v) == [k |-> "ident", v |-> v]

Lower(t) ==
  CASE t = "SELECT" -> "select"
    [] t = "With" -> "with"
    [] t = "DROP" -> "drop"
    [] OTHER -> t

NotAString == <<Kw("<not-a-str>")>>

RECURSIVE SkipWs(_)
SkipWs(sql) == IF sql # <<>> /\ Head(sql).k = " " THEN SkipWs(Tail(sql)) ELSE sql

\* _READONLY_RE = ^\s*(select|with)\b, IGNORECASE
is_read_only_sql(sql) ==
  IF sql = NotAString THEN FALSE
  ELSE LET body == SkipWs(sql)
       IN body # <<>> /\ Lower(Head(body).k) \in {"select", "with"}

\* ------------------------------------------------------------------------
\* The analytical engine (DuckDB connection self.con): the registered views
\* are a set of [name, reads]; execute() runs every statement of the text in
\* order, each committed on its own, and stops at the first error
\* ------------------------------------------------------------------------
ViewNames(V) == {w.name : w \in V}
CreateOrReplaceView(V, n, r) == {w \in V : w.name # n} \cup {[name |-> n, reads |-> r]}
DropViewIfExists(V, n) == {w \in V : w.name # n}

RECURSIVE SplitStatements(_, _)
SplitStatements(sql, cur) ==
  IF sql = <<>> THEN (IF cur = <<>> THEN <<>> ELSE <<cur>>)
  ELSE IF Head(sql).k = ";" THEN <<cur>> \o SplitStatements(Tail(sql), <<>>)
  ELSE IF Head(sql).k = " " THEN SplitStatements(Tail(sql), cur)
  ELSE SplitStatements(Tail(sql), Append(cur, Head(sql)))

StatementKind(stmt) ==
  IF stmt = <<>> THEN "empty"
  ELSE LET w == Lower(stmt[1].k)
       IN CASE w = "select" /\ Len(stmt) = 2 /\ stmt[2].k = "1" -> "select_const"
            [] w = "select" /\ Len(stmt) = 3 /\ stmt[2].k = "from" /\ stmt[3].k = "ident"
                 -> "select_view"
            [] w = "with" /\ Len(stmt) = 2 /\ stmt[2].k = "select" -> "select_const"
            [] w = "drop" /\ Len(stmt) = 3 /\ stmt[2].k = "view" /\ stmt[3].k = "ident"
                 -> "drop_view"
            [] OTHER -> "syntax_error"

IsSelectStatement(stmt) == StatementKind(stmt) \in {"select_const", "select_view"}

RECURSIVE ExecStatements(_, _)
ExecStatements(V, stmts) ==
  IF stmts = <<>> THEN [views |-> V, err |-> FALSE]
  ELSE LET stmt == Head(stmts)
           kind == StatementKind(stmt)
       IN CASE kind = "empty" -> ExecStatements(V, Tail(stmts))
            [] kind = "select_const" -> ExecStatements(V, Tail(stmts))
            [] kind = "select_view" ->
                 IF stmt[3].v \in ViewNames(V) THEN ExecStatements(V, Tail(stmts))
                 ELSE [views |-> V, err |-> TRUE]
            [] kind = "drop_view" ->
                 IF stmt[3].v \in ViewNames(V)
                 THEN ExecStatements(DropViewIfExists(V, stmt[3].v), Tail(stmts))
                 ELSE [views |-> V, err |-> TRUE]
            [] OTHER -> [views |-> V, err |-> TRUE]

con_execute(V, sql) == ExecStatements(V, SplitStatements(sql, <<>>))

\* ------------------------------------------------------------------------
\* Shard directories and envelopes on disk (inputs of mount).  A descriptor
\* gives what the mount path reads: the transport format, the verifier's
\* verdict, the manifest fields, and the parquet files present.
\*   p1, p2      verified Genesis shards with the same shard_id and
\*               different merkle roots; p2 ships an extension table
\*   p4          a tampered copy of p1 (same manifest, verifier says FAIL)
\*   e1          a Clarion envelope of the shard in p1
\*   e2          a Clarion envelope that decrypts to the tampered copy
\*   p5          a verified Genesis shard with its own shard_id whose
\*               provenance.parquet DuckDB cannot open when the view is
\*               created
\* ------------------------------------------------------------------------
Paths == {"p1", "p2", "p4", "p5", "e1", "e2"}
\* (path, secret_b64) pairs a caller passes to mount
MountInputs ==
  {<<"p1", "">>, <<"p2", "">>, <<"p4", "">>, <<"p5", "">>,
   <<"e1", "k1">>, <<"e1", "k2">>, <<"e2", "k1">>}
RemovablePaths == {"p2"}

Shard(fmt, sec, ver, sid, root, files, ext) ==
  [format |-> fmt, secret |-> sec, verify |-> ver, spec_version |-> "1.0.0",
   shard_id |-> sid, merkle_root |-> root, spans_ok |-> TRUE,
   files |-> files, ext |-> ext, bad |-> {}]

CoreTables == {"claims", "entities", "provenance", "spans"}

Disk(p) ==
  CASE p = "p1" -> Shard("genesis", "", "PASS", <<"a", "-">>, <<"1">>, CoreTables, <<>>)
    [] p = "p2" -> Shard("genesis", "", "PASS", <<"a", "-">>, <<"2">>, CoreTables, <<"locators">>)
    [] p = "p4" -> Shard("genesis", "", "FAIL", <<"a", "-">>, <<"1">>, CoreTables, <<>>)
    [] p = "p5" -> [Shard("genesis", "", "PASS", <<"b", "-">>, <<"1">>, CoreTables, <<>>)
                      EXCEPT !.bad = {"provenance"}]
    [] p = "e1" -> Shard("clarion", "k1", "PASS", <<"a", "-">>, <<"1">>, CoreTables, <<>>)
    [] p = "e2" -> Shard("clarion", "k1", "FAIL", <<"a", "-">>, <<"1">>, CoreTables, <<>>)
    [] OTHER -> Shard("unknown", "", "FAIL", <<>>, <<>>, {}, <<>>)

\* ------------------------------------------------------------------------
\* engine.py: identifiers derived in mount_shard
\* ------------------------------------------------------------------------
NoMount == <<>>

\* str(uuid.uuid5(_NAMESPACE, json.dumps({shard_id, merkle_root}, sort_keys=True)))
MountId(shard_id, merkle_root) == <<shard_id, merkle_root>>

\* mount_id.replace("-", "")[:12]
MountPrefix(mount_id) == mount_id

\* f"{table_name}__{mount_prefix}__{sanitize_identifier(shard_id)}" and
\* f"ext_{stem}__{mount_prefix}__{sanitize_identifier(shard_id)}"
ViewName_noPrefix(kind, name, mount_prefix, shard_id) ==
  <<kind, name, <<>>, sanitize_identifier(shard_id)>>

ViewName(kind, name, mount_prefix, shard_id) ==
  <<kind, name, mount_prefix, sanitize_identifier(shard_id)>>

\* _SHARD_TABLES, in order: (table_name, required)
ShardTables ==
  << [name |-> "claims", required |-> TRUE],
     [name |-> "entities", required |-> FALSE],
     [name |-> "provenance", required |-> FALSE],
     [name |-> "spans", required |-> FALSE] >>

\* the two view-registration loops of mount_shard: a missing required file
\* or a failing CREATE VIEW raises and keeps the views created so far
RECURSIVE RegisterViews(_, _, _, _, _, _, _)
RegisterViews(V, created, items, d, dir, prefix, kind) ==
  IF items = <<>> THEN [views |-> V, created |-> created, err |-> FALSE]
  ELSE LET nm == IF kind = "core" THEN Head(items).name ELSE Head(items)
           req == IF kind = "core" THEN Head(items).required ELSE FALSE
           there == IF kind = "core" THEN nm \in d.files ELSE TRUE
           vn == ViewName(kind, nm, prefix, d.shard_id)
       IN IF ~there
          THEN (IF req THEN [views |-> V, created |-> created, err |-> TRUE]
                ELSE RegisterViews(V, created, Tail(items), d, dir, prefix, kind))
          ELSE IF nm \in d.bad
          THEN [views |-> V, created |-> created, err |-> TRUE]
          ELSE RegisterViews(CreateOrReplaceView(V, vn, [dir |-> dir, kind |-> kind, file |-> nm]),
                             created \cup {vn}, Tail(items), d, dir, prefix, kind)

\* ------------------------------------------------------------------------
\* db.py: SystemCatalog.  The mounts table is the sequence of its rows in
\* rowid order; system_events is kept as its number of rows, and each call
\* records the event types it inserted (no operation reads the table).
\* The audit log (audit.py) is a write-only file and is left out.
\* ------------------------------------------------------------------------

RowIndex(cat, mount_id) ==
  IF \E i \in 1..Len(cat) : cat[i].mount_id = mount_id
  THEN CHOOSE i \in 1..Len(cat) : cat[i].mount_id = mount_id
  ELSE 0

\* INSERT ... ON CONFLICT(mount_id) DO UPDATE SET status='active', enc_secret,
\* mount_config, ... (doc_id and shard_path keep their first values)
upsert_mount(cat, mount_id, path, secret, transport) ==
  LET i == RowIndex(cat, mount_id)
  IN IF i = 0
     THEN Append(cat, [mount_id |-> mount_id, shard_path |-> path, enc_secret |-> secret,
                       transport |-> transport, auto_mount |-> 1, status |-> "active"])
     ELSE [cat EXCEPT ![i].status = "active", ![i].enc_secret = secret,
                      ![i].transport = transport]

set_mount_error(cat, mount_id) ==
  [i \in 1..Len(cat) |->
     IF cat[i].mount_id = mount_id THEN [cat[i] EXCEPT !.status = "error"] ELSE cat[i]]

set_mount_stopped(cat, mount_id) ==
  [i \in 1..Len(cat) |->
     IF cat[i].mount_id = mount_id THEN [cat[i] EXCEPT !.status = "stopped"] ELSE cat[i]]

\* SELECT * FROM mounts WHERE auto_mount=1
get_active_mounts(cat) == SelectSeq(cat, LAMBDA r : r.auto_mount = 1)

log_system_event(ev, type) == [n |-> ev.n + 1, logged |-> Append(ev.logged, type)]

\* ------------------------------------------------------------------------
\* registry/resolve.py: Registry.  Names, aliases and shard ids are strings,
\* written as sequences of lexemes.  The document self._data["artifacts"] is
\* the sequence of its entries in insertion order (the order _find_with_name
\* scans); tags, policy and timestamps do not take part in any operation
\* below.  schema.json does not ship with the sources, so _validate takes
\* its soft-fail path.
\* ------------------------------------------------------------------------
MaxHistory == 2   \* history entries per artifact
MaxAliases == 1   \* aliases per artifact

HexChars == {"0", "a", "f"}

\* SHARD_ID_RE = ^shard_blake3_[a-f0-9]+$
SHARD_ID_RE(s) ==
  /\ Len(s) >= 2
  /\ s[1] = "shard_blake3_"
  /\ \A i \in 2..Len(s) : s[i] \in HexChars

S1 == <<"shard_blake3_", "a">>
S2 == <<"shard_blake3_", "f", "0">>
ShardIdInputs == {S1, S2, <<"shard_blake3_", "a", "g">>}
ArtifactNames == {<<"art">>, <<"lib">>}
AliasInputs == {<<"latest">>, <<"lib">>}
AliasLists == {<<>>, << <<"latest">> >>}

\* _find_with_name: the index of the entry, 0 for (None, None)
find_with_name(data, ref) ==
  IF \E i \in 1..Len(data) : data[i].name = ref
  THEN CHOOSE i \in 1..Len(data) : data[i].name = ref
  ELSE IF \E i \in 1..Len(data) : \E k \in 1..Len(data[i].aliases) : data[i].aliases[k] = ref
  THEN CHOOSE i \in 1..Len(data) :
         /\ \E k \in 1..Len(data[i].aliases) : data[i].aliases[k] = ref
         /\ \A j \in 1..(i - 1) : \A k \in 1..Len(data[j].aliases) : data[j].aliases[k] # ref
  ELSE 0

RegResult(data, ok) == [data |-> data, ok |-> ok]

\* entry["history"].append(hist)
append_history_rewrite(history, hist) == <<hist>>

append_history(history, hist) == Append(history, hist)

\* entry["current"] = shard_id
assign_current_kept(old, shard_id) == old

assign_current(old, shard_id) == shard_id

set_current(data, name, shard_id, reason) ==
  LET i == find_with_name(data, name)
  IN IF ~SHARD_ID_RE(shard_id) THEN RegResult(data, FALSE)
     ELSE IF i = 0 THEN RegResult(data, FALSE)
     ELSE RegResult(
            [data EXCEPT ![i].current = assign_current(@, shard_id),
                         ![i].history = append_history(@, [shard_id |-> shard_id,
                                                           reason |-> reason])],
            TRUE)

add_alias(data, name, alias) ==
  LET e == find_with_name(data, alias)
      i == find_with_name(data, name)
  IN IF e # 0
     THEN (IF data[e].name # name THEN RegResult(data, FALSE) ELSE RegResult(data, TRUE))
     ELSE IF i = 0 THEN RegResult(data, FALSE)
     ELSE RegResult([data EXCEPT ![i].aliases = Append(@, alias)], TRUE)

\* "if name in self._data.setdefault("artifacts", {})"
name_exists_never(data, name) == FALSE

name_exists(data, name) == \E i \in 1..Len(data) : data[i].name = name

add_artifact(data, name, shard_id, reason, aliases) ==
  IF ~SHARD_ID_RE(shard_id) THEN RegResult(data, FALSE)
  ELSE IF name_exists(data, name) THEN RegResult(data, FALSE)
  ELSE RegResult(
         Append(data, [name |-> name, aliases |-> aliases, current |-> shard_id,
                       history |-> <<[shard_id |-> shard_id, reason |-> reason]>>]),
         TRUE)

\* resolve(ref): a bare shard id passes through; <<>> stands for the
\* RegistryError
resolve(data, ref) ==
  IF SHARD_ID_RE(ref) THEN ref
  ELSE IF find_with_name(data, ref) = 0 THEN <<>>
  ELSE data[find_with_name(data, ref)].current

\* list_history(ref): <<>> stands for the RegistryError
list_history(data, ref) ==
  IF find_with_name(data, ref) = 0 THEN <<>> ELSE data[find_with_name(data, ref)].history

VARIABLES
  registry,   \* Registry._data["artifacts"]
  reg_file,   \* the document in the registry file
  lastReg     \* the last registry call and whether it succeeded

regvars == <<registry, reg_file, lastReg>>

RegOp(op, name, shard_id, ok) == [op |-> op, name |-> name, shard_id |-> shard_id, ok |-> ok]

InitReg ==
  /\ registry = <<>>
  /\ reg_file = <<>>
  /\ lastReg = RegOp("init", <<>>, <<>>, TRUE)

RegWithinBounds(data) ==
  \A i \in 1..Len(data) :
     /\ Len(data[i].history) <= MaxHistory
     /\ Len(data[i].aliases) <= MaxAliases

\* a successful call ends in _save(), a failed one raises before it
RegInstall(r) ==
  /\ RegWithinBounds(r.data)
  /\ registry' = r.data
  /\ reg_file' = IF r.ok THEN r.data ELSE reg_file

\* ------------------------------------------------------------------------
\* engine.py: SpectraEngine
\* ------------------------------------------------------------------------
VARIABLES
  mount_specs,    \* self._mount_specs: the MountSpec of every session
  claims_idx,     \* keys of self._claims
  views,          \* views registered in self.con
  mount_dirs,     \* self._mount_dirs: [mount_id, dir] of decrypted sessions
  temp_dirs,      \* decrypted temporary directories that exist on disk
  cat_mounts,     \* catalog table mounts
  system_events,  \* number of rows of the catalog table system_events
  removed,        \* shard paths that no longer exist on disk
  lastOp          \* the last call made on the engine and what it did

SpecIds(specs) == {sp.mount_id : sp \in specs}
SpecOf(specs, mount_id) == CHOOSE sp \in specs : sp.mount_id = mount_id

EngineState ==
  [specs |-> mount_specs, claims |-> claims_idx, views |-> views, mount_dirs |-> mount_dirs,
   temp_dirs |-> temp_dirs, cat |-> cat_mounts,
   ev |-> [n |-> system_events, logged |-> <<>>]]

Outcome(st, ok, ret, verified, created, deduped) ==
  [st |-> st, ok |-> ok, ret |-> ret, verified |-> verified, created |-> created,
   deduped |-> deduped]

\* tempfile.mkdtemp: a directory name that does not exist yet
mkdtemp(dirs) == CHOOSE n \in 1..(Cardinality(dirs) + 1) : n \notin dirs

\* TransportAdapter.detect_format
detect_format(path) ==
  IF path \in removed THEN "not_found" ELSE Disk(path).format

\* genesis_verify_shard(target_dir, trusted): the verdict on what target_dir
\* holds; a directory that is not a shard cannot pass
verify_constitution_skip(path, transport) == TRUE

verify_constitution(path, transport) ==
  /\ path \notin removed
  /\ Disk(path).verify = "PASS"
  /\ transport = "genesis" => Disk(path).format = "genesis"

\* "if mount_id in self._mount_specs" under the lock
already_mounted_never(specs, mount_id) == FALSE

already_mounted(specs, mount_id) == mount_id \in SpecIds(specs)

\* the except-branch of mount_shard: remove the decrypted directory, log
\* mount_fail for API calls, re-raise
mount_failed(st, tmp, origin, verified, created) ==
  Outcome([st EXCEPT !.temp_dirs = @ \ {tmp},
                    !.ev = IF origin = "api" THEN log_system_event(@, "mount_fail") ELSE @],
          FALSE, NoMount, verified, created, FALSE)

\* mount_shard, lines 406-420: the session enters the in-memory tables
session_tables(st, path, transport, tmp, d, mount_id, reg) ==
  [st EXCEPT
     !.views = reg.views,
     !.mount_dirs = IF tmp # 0
                    THEN {m \in @ : m.mount_id # mount_id}
                           \cup {[mount_id |-> mount_id, dir |-> tmp]}
                    ELSE @,
     !.specs = {sp \in @ : sp.mount_id # mount_id}
                 \cup {[mount_id |-> mount_id, shard_id |-> d.shard_id,
                        merkle_root |-> d.merkle_root, spec_version |-> d.spec_version,
                        source_path |-> path, transport |-> transport,
                        tables |-> reg.created]},
     !.claims = @ \cup {mount_id}]

\* mount_shard, lines 422-433: the catalog row and the mount_ok event
persist_mount(st, mount_id, path, secret_b64, transport, origin) ==
  [st EXCEPT
     !.cat = upsert_mount(@, mount_id, path, secret_b64, transport),
     !.ev = IF origin = "api" THEN log_system_event(@, "mount_ok") ELSE @]

\* mount_shard, lines 406-447: the session is stored and persisted
mount_store(st, path, secret_b64, origin, transport, tmp, d, mount_id, reg) ==
  Outcome(persist_mount(session_tables(st, path, transport, tmp, d, mount_id, reg),
                        mount_id, path, secret_b64, transport, origin),
          TRUE, mount_id, TRUE, reg.created, FALSE)

\* mount_shard, lines 382-392 after 362-380: the views over the ext/ parquet
\* files follow the views over the standard tables
register_ext(core, d, dir, prefix) ==
  IF core.err THEN core
  ELSE RegisterViews(core.views, core.created, d.ext, d, dir, prefix, "ext")

\* mount_shard, lines 362-392: all the views of one shard
register_views(V, d, dir, prefix) ==
  register_ext(RegisterViews(V, {}, ShardTables, d, dir, prefix, "core"), d, dir, prefix)

\* mount_shard: a failing CREATE VIEW raises
mount_registered(st, path, secret_b64, origin, transport, tmp, d, mount_id, reg) ==
  IF reg.err
  THEN mount_failed([st EXCEPT !.views = reg.views], tmp, origin, TRUE, reg.created)
  ELSE mount_store(st, path, secret_b64, origin, transport, tmp, d, mount_id, reg)

\* mount_shard, lines 350-392: under the lock, the dedup check and the views
mount_locked(st, path, secret_b64, origin, transport, tmp, d, mount_id) ==
  IF already_mounted(st.specs, mount_id)
  THEN Outcome([st EXCEPT !.temp_dirs = @ \ {tmp}], TRUE, mount_id, TRUE, {}, TRUE)
  ELSE mount_registered(st, path, secret_b64, origin, transport, tmp, d, mount_id,
                        register_views(st.views, d, [path |-> path, tmp |-> tmp],
                                       MountPrefix(mount_id)))

\* mount_shard, lines 328-344: the manifest and span checks
manifest_rejects(d) ==
  \/ d.spec_version # "1.0.0"
  \/ d.shard_id = <<>>
  \/ d.merkle_root = <<>>
  \/ ~d.spans_ok

\* mount_shard, lines 324-347: the try block up to the lock
mount_checked(st, path, secret_b64, origin, transport, tmp, d) ==
  IF ~verify_constitution(path, transport)
  THEN mount_failed(st, tmp, origin, TRUE, {})
  ELSE IF manifest_rejects(d)
  THEN mount_failed(st, tmp, origin, TRUE, {})
  ELSE mount_locked(st, path, secret_b64, origin, transport, tmp, d,
                    MountId(d.shard_id, d.merkle_root))

\* mount_shard, lines 317-318: decrypt_envelope has made the directory tmp
mount_decrypted(st0, path, secret_b64, origin, transport, d, tmp) ==
  mount_checked([st0 EXCEPT !.temp_dirs = @ \cup {tmp}], path, secret_b64, origin,
                transport, tmp, d)

\* mount_shard, lines 302-322: the call raises before the try block
transport_rejects(path, secret_b64, transport, d) ==
  CASE transport = "clarion" ->
         secret_b64 = "" \/ path \in removed \/ d.format # "clarion" \/ secret_b64 # d.secret
    [] transport = "genesis" -> FALSE
    [] OTHER -> TRUE

\* mount_shard, lines 307-322: the transport decides the target directory
mount_target(st0, path, secret_b64, origin, transport, d) ==
  IF transport_rejects(path, secret_b64, transport, d)
  THEN Outcome(st0, FALSE, NoMount, FALSE, {}, FALSE)
  ELSE IF transport = "clarion"
  THEN mount_decrypted(st0, path, secret_b64, origin, transport, d, mkdtemp(st0.temp_dirs))
  ELSE mount_checked(st0, path, secret_b64, origin, transport, 0, d)

mount_shard(st0, path, secret_b64, origin, forced_transport) ==
  mount_target(st0, path, secret_b64, origin,
               IF forced_transport # "" THEN forced_transport ELSE detect_format(path),
               Disk(path))

\* one entry of boot()'s loop over the catalog rows
boot_row(st, row) ==
  LET transport == row.transport
      secret == IF transport = "clarion" THEN row.enc_secret ELSE ""
      early == \/ transport = "clarion" /\ row.enc_secret = ""
               \/ row.shard_path \in removed
      r == mount_shard(st, row.shard_path, secret, "boot", transport)
      st1 == IF early THEN st ELSE r.st
      failed == early \/ ~r.ok
  IN [st |-> IF failed
             THEN [st1 EXCEPT !.cat = set_mount_error(@, row.mount_id),
                              !.ev = log_system_event(@, "boot_mount_fail")]
             ELSE st1,
      created |-> IF early THEN {} ELSE r.created,
      failed |-> failed]

RECURSIVE boot_rows(_, _, _, _)
boot_rows(st, rows, created, nfailed) ==
  IF rows = <<>> THEN [st |-> st, created |-> created, failed |-> nfailed]
  ELSE LET b == boot_row(st, Head(rows))
       IN boot_rows(b.st, Tail(rows), created \cup b.created,
                    IF b.failed THEN nfailed + 1 ELSE nfailed)

boot(st) ==
  LET st1 == [st EXCEPT !.ev = log_system_event(@, "boot_start")]
      b == boot_rows(st1, get_active_mounts(st1.cat), {}, 0)
  IN [b EXCEPT !.st.ev = log_system_event(@, "boot_complete")]

\* "for t in spec.tables: DROP VIEW IF EXISTS t"
drop_session_views_core_only(V, tables) ==
  {w \in V : ~(w.name \in tables /\ w.name[1] = "core")}

RECURSIVE drop_session_views(_, _)
drop_session_views(V, tables) ==
  IF tables = {} THEN V
  ELSE LET t == CHOOSE x \in tables : TRUE
       IN drop_session_views(DropViewIfExists(V, t), tables \ {t})

\* unmount, lines 473-483: the session leaves the in-memory tables
unmount_tables(st, mount_id, spec) ==
  [st EXCEPT
     !.specs = @ \ {spec},
     !.claims = @ \ {mount_id},
     !.views = drop_session_views(@, spec.tables),
     !.mount_dirs = {m \in @ : m.mount_id # mount_id},
     !.temp_dirs = @ \ {m.dir : m \in {x \in st.mount_dirs : x.mount_id = mount_id}}]

\* unmount, lines 485-486: the catalog row and the unmount event
unmount_persist(st, mount_id) ==
  [st EXCEPT !.cat = set_mount_stopped(@, mount_id),
             !.ev = log_system_event(@, "unmount")]

unmount(st, mount_id) ==
  IF mount_id \notin SpecIds(st.specs)
  THEN [st EXCEPT !.claims = @ \ {mount_id}]
  ELSE unmount_persist(unmount_tables(st, mount_id, SpecOf(st.specs, mount_id)), mount_id)

\* query_json: [st, ok, handed] where handed says whether the text reached
\* self.con.execute
query_json(st, sql) ==
  IF ~is_read_only_sql(sql)
  THEN [st |-> st, ok |-> FALSE, handed |-> FALSE]
  ELSE LET res == con_execute(st.views, sql)
       IN IF res.err
          THEN [st |-> [st EXCEPT !.views = res.views], ok |-> FALSE, handed |-> TRUE]
          ELSE [st |-> [st EXCEPT !.views = res.views], ok |-> TRUE, handed |-> TRUE]

\* catalog_json (list_mounts): the sessions sorted by (shard_id, mount_id)
CharRank(c) ==
  CASE c = " " -> 0 [] c = "-" -> 1 [] c = "1" -> 2 [] c = "2" -> 3
    [] c = "_" -> 4 [] c = "a" -> 5 [] c = "b" -> 6 [] OTHER -> 7

RECURSIVE StrLess(_, _)
StrLess(s, t) ==
  IF t = <<>> THEN FALSE
  ELSE IF s = <<>> THEN TRUE
  ELSE IF Head(s) # Head(t) THEN CharRank(Head(s)) < CharRank(Head(t))
  ELSE StrLess(Tail(s), Tail(t))

SortKeyLess(a, b) ==
  \/ StrLess(a.shard_id, b.shard_id)
  \/ a.shard_id = b.shard_id /\ StrLess(a.merkle_root, b.merkle_root)

RECURSIVE SortedSpecs(_)
SortedSpecs(specs) ==
  IF specs = {} THEN <<>>
  ELSE LET m == CHOOSE a \in specs : \A b \in specs \ {a} : ~SortKeyLess(b, a)
       IN <<m>> \o SortedSpecs(specs \ {m})

catalog_json(specs) ==
  LET srt == SortedSpecs(specs)
  IN [i \in 1..Len(srt) |->
        [mount_id |-> srt[i].mount_id, shard_id |-> srt[i].shard_id,
         merkle_root |-> srt[i].merkle_root, spec_version |-> srt[i].spec_version,
         transport |-> srt[i].transport, tables |-> srt[i].tables]]

\* ------------------------------------------------------------------------
\* Inputs
\* ------------------------------------------------------------------------
MountIds == {MountId(Disk(p).shard_id, Disk(p).merkle_root) : p \in {"p1", "p2"}}

TargetViews ==
  { ViewName("core", "claims", MountPrefix(MountId(<<"a", "-">>, <<"1">>)), <<"a", "-">>) }

SqlTexts ==
  { <<Kw(" "), Kw("SELECT"), Kw(" "), Kw("1")>>,
    <<Kw("With"), Kw(" "), Kw("select")>>,
    <<Kw("selectx"), Kw(" "), Kw("1")>> }
  \cup { <<Kw("select"), Kw("from"), Id(v)>> : v \in TargetViews }
  \cup { <<Kw("DROP"), Kw("view"), Id(v)>> : v \in TargetViews }
  \cup { <<Kw("select"), Kw(" "), Kw("1"), Kw(";"), Kw("drop"), Kw("view"), Id(v)>> :
           v \in TargetViews }

\* ------------------------------------------------------------------------
\* The sequential engine: every call runs to completion
\* ------------------------------------------------------------------------
enginevars == <<mount_specs, claims_idx, views, mount_dirs, temp_dirs, cat_mounts,
                system_events, removed, lastOp>>

\* ------------------------------------------------------------------------
\* Threads calling the engine.  self._lock is an RLock that no call takes
\* twice; lock is its owner, NoLock when it is free.
\* ------------------------------------------------------------------------
Threads == {1, 2}
NoLock == 0

VARIABLES
  lock,    \* the owner of SpectraEngine._lock
  thr,     \* per thread: where its call stands and the call's local variables
  actor    \* the thread that took the last step

concvars == <<lock, thr, actor>>

Idle ==
  [pc |-> "idle", path |-> "", secret |-> "", origin |-> "", transport |-> "",
   tmp |-> 0, mid |-> NoMount, rows |-> <<>>]

InitConc ==
  /\ lock = NoLock
  /\ thr = [t \in Threads |-> Idle]
  /\ actor = 0

\* ------------------------------------------------------------------------
\* The registry file under its writers.  Each writer is a process with its
\* own Registry instance; disk is what the file holds, as the sequence of
\* pieces json.dump has written so far.
\* ------------------------------------------------------------------------
Writers == {1, 2}

VARIABLES
  disk,   \* the content of the registry file
  wr      \* per writer: its position in _save, its _data, its file offset

savevars == <<disk, wr>>

\* ------------------------------------------------------------------------
\* axm_cli.py: pin and resolve --lock
\* ------------------------------------------------------------------------
VARIABLES
  lockfile,  \* the lockfile: whether it exists and its "pins", in file order
  pinned     \* what each ref resolved to when the last pin ran

pinvars == <<lockfile, pinned>>

\* ------------------------------------------------------------------------
\* axm_build/merkle.py.  BLAKE3 is taken as collision-free: a digest is the
\* term of what was hashed.  A leaf digest hashes 0x00 || relpath || 0x00 ||
\* bytes, a node digest 0x01 || left || right, the empty root 0x01 alone.
\* ------------------------------------------------------------------------
MaxLeaves == 4

LeafDigest(rel) == <<"leaf", rel>>
NodeDigest(left, right) == <<"node", left, right>>
EMPTY_ROOT_MLDSA44 == <<"empty">>

\* one pass of the inner loop of _merkle_tree_mldsa44 with the last node of
\* an odd level paired with itself
RECURSIVE next_level_dup_odd(_)
next_level_dup_odd(level) ==
  IF level = <<>> THEN <<>>
  ELSE IF Len(level) = 1 THEN <<NodeDigest(level[1], level[1])>>
  ELSE <<NodeDigest(level[1], level[2])>> \o next_level_dup_odd(SubSeq(level, 3, Len(level)))

\* one pass of the inner loop of _merkle_tree_mldsa44: pairs are hashed, an
\* odd last node is promoted unchanged
RECURSIVE next_level(_)
next_level(level) ==
  IF level = <<>> THEN <<>>
  ELSE IF Len(level) = 1 THEN <<level[1]>>
  ELSE <<NodeDigest(level[1], level[2])>> \o next_level(SubSeq(level, 3, Len(level)))

RECURSIVE reduce_levels(_)
reduce_levels(level) ==
  IF Len(level) > 1 THEN reduce_levels(next_level(level)) ELSE level[1]

merkle_tree_mldsa44(leaves) ==
  IF leaves = <<>> THEN EMPTY_ROOT_MLDSA44
  ELSE IF Len(leaves) = 1 THEN leaves[1]
  ELSE reduce_levels(leaves)

LeafNames == {"a", "b"}
RECURSIVE LeafLists(_)
LeafLists(n) ==
  IF n = 0 THEN {<<>>}
  ELSE LeafLists(n - 1)
         \cup {Append(l, LeafDigest(x)) : l \in {k \in LeafLists(n - 1) : Len(k) = n - 1},
                                          x \in LeafNames}

VARIABLES
  mk_leaves,  \* two lists of leaf digests
  mk_roots    \* their roots, <<>> until they are computed

merklevars == <<mk_leaves, mk_roots>>

\* nothing to hash
InitMerkle ==
  /\ mk_leaves = <<<<>>, <<>>>>
  /\ mk_roots = <<>>

\* any two leaf lists
InitMerkleInputs ==
  /\ mk_leaves \in LeafLists(MaxLeaves) \X LeafLists(MaxLeaves)
  /\ mk_roots = <<>>

\* the variables outside the engine, the registry calls and the engine's threads
\* ------------------------------------------------------------------------
\* genesis/axm_build/common.py, compiler_generic.py: the generic compiler.
\* A text is a sequence of characters over "d", "e", ".", " " and "\n":
\* lowercase letters, a sentence end, a blank and the line feed.  The
\* alphabet has no carriage return, hyphen, colon, uppercase letter, digit,
\* list marker or apostrophe, so the CR replacement, the hyphenation join,
\* the heading and list boundaries and the legacy replacements of
\* normalize_source_text never apply and are left out.
\* ------------------------------------------------------------------------
MaxCands == 2    \* candidate records in one stream

LowerChars == {"d", "e"}
SentenceEnd == {".", ":", ";", "!", "?", ")"}

\* s.split("\n")
RECURSIVE SplitLines(_, _)
SplitLines(s, cur) ==
  IF s = <<>> THEN <<cur>>
  ELSE IF Head(s) = "\n" THEN <<cur>> \o SplitLines(Tail(s), <<>>)
  ELSE SplitLines(Tail(s), Append(cur, Head(s)))

\* index of the first non-blank line at or after j, Len(raw) + 1 if none
RECURSIVE SkipBlank(_, _)
SkipBlank(raw, j) ==
  IF j <= Len(raw) /\ raw[j] = <<>> THEN SkipBlank(raw, j + 1) ELSE j

\* the soft-wrap loop: lines are joined to buf with one blank until a blank
\* line or the end; the result is the buffer and the index reached
RECURSIVE soft_wrap(_, _, _)
soft_wrap(raw, i, buf) ==
  IF i > Len(raw) \/ raw[i] = <<>> THEN <<buf, i>>
  ELSE soft_wrap(raw, i + 1, buf \o <<" ">> \o LStrip(raw[i], {" "}))

\* the blank line at raw[i] is absorbed: the next non-blank line continues
\* the previous output line
blank_merges(raw, j, out) ==
  /\ out # <<>>
  /\ j <= Len(raw)
  /\ out[Len(out)] # <<>>
  /\ out[Len(out)][Len(out[Len(out)])] \notin SentenceEnd
  /\ Head(LStrip(raw[j], {" "})) \in LowerChars

\* the main loop of normalize_source_text over the lines
RECURSIVE merge_lines(_, _, _)
merge_lines(raw, i, out) ==
  IF i > Len(raw) THEN out
  ELSE IF raw[i] = <<>>
  THEN IF blank_merges(raw, SkipBlank(raw, i + 1), out)
       THEN merge_lines(raw, SkipBlank(raw, i + 1) + 1,
              [out EXCEPT ![Len(out)] =
                 @ \o <<" ">> \o LStrip(raw[SkipBlank(raw, i + 1)], {" "})])
       ELSE merge_lines(raw, i + 1,
              IF out = <<>> \/ out[Len(out)] # <<>> THEN Append(out, <<>>) ELSE out)
  ELSE merge_lines(raw, soft_wrap(raw, i + 1, raw[i])[2],
                   Append(out, soft_wrap(raw, i + 1, raw[i])[1]))

\* consecutive blank lines become one
RECURSIVE collapse_blank(_)
collapse_blank(lines) ==
  IF Len(lines) < 2 THEN lines
  ELSE IF lines[1] = <<>> /\ lines[2] = <<>> THEN collapse_blank(Tail(lines))
  ELSE <<lines[1]>> \o collapse_blank(Tail(lines))

\* "\n".join(lines) + "\n"
RECURSIVE JoinLines(_)
JoinLines(lines) ==
  IF lines = <<>> THEN <<"\n">>
  ELSE IF Len(lines) = 1 THEN lines[1] \o <<"\n">>
  ELSE lines[1] \o <<"\n">> \o JoinLines(Tail(lines))

RStripLines(lines) == [i \in 1..Len(lines) |-> RStrip(lines[i], {" "})]

normalize_source_text(s) ==
  JoinLines(collapse_blank(merge_lines(
    RStrip(LStrip(RStripLines(SplitLines(s, <<>>)), {<<>>}), {<<>>}), 1, <<>>)))

\* bytes.count(needle): occurrences that do not overlap, left to right
RECURSIVE CountOcc(_, _)
CountOcc(text, needle) ==
  IF needle = <<>> THEN Len(text) + 1
  ELSE IF Len(text) < Len(needle) THEN 0
  ELSE IF SubSeq(text, 1, Len(needle)) = needle
  THEN 1 + CountOcc(SubSeq(text, Len(needle) + 1, Len(text)), needle)
  ELSE CountOcc(Tail(text), needle)

\* bytes.find(needle): offset of the first occurrence
FindOcc(text, needle) ==
  CHOOSE k \in 0..Len(text) :
    /\ k + Len(needle) <= Len(text)
    /\ SubSeq(text, k + 1, k + Len(needle)) = needle
    /\ \A m \in 0..(k - 1) : SubSeq(text, m + 1, m + Len(needle)) # needle

\* the ValueError of _find_span_strict, "" when the span is found
find_span_error(content, needle) ==
  IF CountOcc(content, needle) = 0 THEN "Evidence not found"
  ELSE IF CountOcc(content, needle) > 1 THEN "Ambiguous evidence"
  ELSE ""

\* (byte_start, byte_end) of the one occurrence
find_span_strict(content, needle) ==
  <<FindOcc(content, needle), FindOcc(content, needle) + Len(needle)>>

\* const.py
VALID_OBJECT_TYPES ==
  {"entity", "literal:string", "literal:integer", "literal:decimal", "literal:boolean"}
VALID_TIERS == {0, 1, 2, 3, 4}

\* sign.py
SUITE_ED25519 == "ed25519"
SUITE_MLDSA44 == "axm-blake3-mldsa44"

\* cfg.namespace
Namespace == "ns"

\* axm_verify/identity.py: an id is the digest of the fields it is computed
\* from, represented by those fields
recompute_entity_id(ns, label) == [namespace |-> ns, label |-> label]
recompute_claim_id(subj, pred, obj, obj_type) ==
  [subject |-> subj, predicate |-> pred, object |-> obj, object_type |-> obj_type]

\* _b32_id(prefix, data), and the SHA-256 of the content bytes
b32_id(prefix, data) == [prefix |-> prefix, data |-> data]
sha256(content) == [sha256 |-> content]

\* a candidate record is a function from the keys it carries; c.get(k, d)
Get(c, k, d) == IF k \in DOMAIN c THEN c[k] ELSE d

\* str(...).strip()
Strip(s) == RStrip(LStrip(s, {" "}), {" "})

\* c.get("evidence") or c.get("evidence_quote"); <<>> when both are missing
\* or empty
cand_evidence(c) ==
  IF Get(c, "evidence", <<>>) # <<>> THEN c["evidence"]
  ELSE Get(c, "evidence_quote", <<>>)

\* pass 1: the entities dict, as its labels in insertion order (the value
\* stored under a label is recompute_entity_id(namespace, label))
AddKey(keys, k) ==
  IF \E i \in 1..Len(keys) : keys[i] = k THEN keys ELSE Append(keys, k)

entity_keys(c, keys) ==
  IF Strip(Get(c, "subject", <<>>)) = <<>> THEN keys
  ELSE IF /\ Get(c, "object_type", "entity") = "entity"
          /\ Strip(Get(c, "object", <<>>)) # <<>>
  THEN AddKey(AddKey(keys, Strip(c["subject"])), Strip(c["object"]))
  ELSE AddKey(keys, Strip(c["subject"]))

RECURSIVE pass1(_, _)
pass1(cands, keys) ==
  IF cands = <<>> THEN keys
  ELSE pass1(Tail(cands), entity_keys(Head(cands), keys))

ent_rows(keys) ==
  [i \in 1..Len(keys) |->
     [entity_id |-> recompute_entity_id(Namespace, keys[i]),
      namespace |-> Namespace, label |-> keys[i], entity_type |-> "concept"]]

\* entities.get(label) or recompute_entity_id(namespace, label)
entity_ref(keys, label) ==
  IF \E i \in 1..Len(keys) : keys[i] = label
  THEN ent_rows(keys)[CHOOSE i \in 1..Len(keys) : keys[i] = label].entity_id
  ELSE recompute_entity_id(Namespace, label)

\* pass 2: the candidates passed over before the evidence search
cand_skipped(c) ==
  \/ Strip(Get(c, "subject", <<>>)) = <<>>
  \/ Strip(Get(c, "predicate", <<>>)) = <<>>
  \/ cand_evidence(c) = <<>>
  \/ Get(c, "object_type", "entity") \notin VALID_OBJECT_TYPES

cand_tier(c) ==
  IF Get(c, "tier", 0) \in VALID_TIERS THEN Get(c, "tier", 0) ELSE 0

cand_object(c, keys) ==
  IF Get(c, "object_type", "entity") = "entity"
  THEN entity_ref(keys, Strip(Get(c, "object", <<>>)))
  ELSE Strip(Get(c, "object", <<>>))

claim_id_of(c, keys) ==
  recompute_claim_id(entity_ref(keys, Strip(c["subject"])), Strip(c["predicate"]),
                     cand_object(c, keys), Get(c, "object_type", "entity"))

claim_row(c, keys) ==
  [claim_id |-> claim_id_of(c, keys),
   subject |-> entity_ref(keys, Strip(c["subject"])),
   predicate |-> Strip(c["predicate"]),
   object |-> cand_object(c, keys),
   object_type |-> Get(c, "object_type", "entity"),
   tier |-> cand_tier(c)]

prov_row(c, keys, content, span) ==
  [provenance_id |-> b32_id("p_", <<sha256(content), span[1], span[2]>>),
   claim_id |-> claim_id_of(c, keys),
   source_hash |-> sha256(content), byte_start |-> span[1], byte_end |-> span[2]]

span_row(c, content, span) ==
  [span_id |-> b32_id("s_", <<sha256(content), span[1], span[2], cand_evidence(c)>>),
   source_hash |-> sha256(content), byte_start |-> span[1], byte_end |-> span[2],
   text |-> cand_evidence(c)]

locator_row(c, content, span) ==
  [evidence_addr |-> b32_id("ea_", <<sha256(content), span[1], span[2]>>),
   span_id |-> span_row(c, content, span).span_id,
   source_hash |-> sha256(content),
   kind |-> Get(c["locator"], "kind", "")]

\* the four row buffers and the locator buffer; err is the ValueError that
\* left the loop
EmptyRows == [claims |-> <<>>, prov |-> <<>>, spans |-> <<>>, locators |-> <<>>, err |-> ""]

add_rows(c, keys, content, span, acc) ==
  [claims |-> Append(acc.claims, claim_row(c, keys)),
   prov |-> Append(acc.prov, prov_row(c, keys, content, span)),
   spans |-> Append(acc.spans, span_row(c, content, span)),
   locators |-> IF "locator" \in DOMAIN c
                THEN Append(acc.locators, locator_row(c, content, span))
                ELSE acc.locators,
   err |-> ""]

RECURSIVE pass2(_, _, _, _)
pass2(cands, keys, content, acc) ==
  IF cands = <<>> THEN acc
  ELSE IF cand_skipped(Head(cands)) THEN pass2(Tail(cands), keys, content, acc)
  ELSE IF find_span_error(content, cand_evidence(Head(cands))) = "Evidence not found"
  THEN pass2(Tail(cands), keys, content, acc)
  ELSE IF find_span_error(content, cand_evidence(Head(cands))) # ""
  THEN [EmptyRows EXCEPT !.err = find_span_error(content, cand_evidence(Head(cands)))]
  ELSE pass2(Tail(cands), keys, content,
             add_rows(Head(cands), keys, content,
                      find_span_strict(content, cand_evidence(Head(cands))), acc))

\* files of the output directory, as (directory, stem)
SourceFile == <<"content", "source">>
CoreFiles ==
  {<<"graph", "entities">>, <<"graph", "claims">>, <<"graph", "provenance">>,
   <<"evidence", "spans">>}
LocatorsFile == <<"ext", "locators">>
ManifestFile == <<"", "manifest">>
PubFile == <<"sig", "publisher">>
SigFile == <<"sig", "manifest">>
NoKey == [from |-> "none"]

\* shutil.rmtree(out_dir) and the five mkdir: nothing of the old directory
\* is left
fresh_out_dir(old) == {}

\* the core tables, and ext/locators.parquet if locator rows exist
table_files(acc) ==
  CoreFiles \cup (IF acc.locators # <<>> THEN {LocatorsFile} ELSE {})

\* the stems of the files in ext/ (each is listed as stem@1, in sorted order)
active_extensions(dir) == {f[2] : f \in {g \in dir : g[1] = "ext"}}

\* the digest of the files under the output directory
compute_merkle_root(dir, tables, suite) ==
  [suite |-> suite, files |-> dir, tables |-> tables]

manifest_core(content, keys, acc, dir, suite) ==
  [spec_version |-> "1.0.0", suite |-> suite,
   shard_id |-> <<"shard_blake3_",
                  compute_merkle_root(dir, <<content, keys, acc>>, suite)>>,
   sources |-> <<[path |-> SourceFile, hash |-> sha256(content)]>>,
   integrity |-> [algorithm |-> "blake3",
                  merkle_root |-> compute_merkle_root(dir, <<content, keys, acc>>, suite)],
   statistics |-> [entities |-> Len(keys), claims |-> Len(acc.claims)]]

build_manifest_always(content, keys, acc, dir, suite) ==
  manifest_core(content, keys, acc, dir, suite)
    @@ ("extensions" :> active_extensions(dir))
build_manifest(content, keys, acc, dir, suite) ==
  IF active_extensions(dir) # {}
  THEN manifest_core(content, keys, acc, dir, suite)
         @@ ("extensions" :> active_extensions(dir))
  ELSE manifest_core(content, keys, acc, dir, suite)

\* the public key written to sig/publisher.pub
publisher_pub(dir, suite, key_len) ==
  IF suite = SUITE_MLDSA44
  THEN IF key_len = 3840 THEN [from |-> "key blob"]
       ELSE IF key_len = 2528 /\ PubFile \in dir THEN [from |-> "pre-placed"]
       ELSE [from |-> "mldsa44_keygen"]
  ELSE [from |-> "signing key"]

\* signing_key_from_private_key_bytes raises unless the key has 32 bytes
signing_fails(suite, key_len) == suite # SUITE_MLDSA44 /\ key_len # 32

\* "return False" before any table is written
early_return_true(old, content, exit) ==
  [result |-> "True", exit |-> exit,
   written |-> {SourceFile}, files |-> old \cup {SourceFile},
   entities |-> <<>>, claims |-> <<>>, provenance |-> <<>>, spans |-> <<>>,
   locators |-> <<>>, manifest |-> <<>>, pub |-> NoKey, trusted |-> NoKey]
early_return(old, content, exit) ==
  [result |-> "False", exit |-> exit,
   written |-> {SourceFile}, files |-> old \cup {SourceFile},
   entities |-> <<>>, claims |-> <<>>, provenance |-> <<>>, spans |-> <<>>,
   locators |-> <<>>, manifest |-> <<>>, pub |-> NoKey, trusted |-> NoKey]

\* an exception leaves compile_generic_shard from the second pass
raised(old, content, exit) ==
  [early_return(old, content, exit) EXCEPT !.result = "raise"]

\* res.get("status") == "PASS"
self_verify_result_any(verdict) == "True"
self_verify_result(verdict) == IF verdict = "PASS" THEN "True" ELSE "False"

shard_written(old, keys, acc, manifest, written) ==
  [result |-> "raise", exit |-> "signing",
   written |-> written, files |-> old \cup written,
   entities |-> ent_rows(keys), claims |-> acc.claims, provenance |-> acc.prov,
   spans |-> acc.spans, locators |-> acc.locators,
   manifest |-> manifest, pub |-> NoKey, trusted |-> NoKey]

\* lines 268-316: sign, then verify with the key just written as the anchor
compile_signed(old, keys, acc, manifest, written, suite, key_len, verdict) ==
  IF signing_fails(suite, key_len)
  THEN shard_written(old, keys, acc, manifest, written)
  ELSE [shard_written(old, keys, acc, manifest, written \cup {PubFile, SigFile})
          EXCEPT !.result = self_verify_result(verdict),
                 !.exit = "self_verify",
                 !.pub = publisher_pub(old \cup written, suite, key_len),
                 !.trusted = publisher_pub(old \cup written, suite, key_len)]

\* lines 229-266: the tables and the manifest
compile_tables(old, content, keys, acc, suite, key_len, verdict) ==
  compile_signed(old, keys, acc,
    build_manifest(content, keys, acc,
                   old \cup {SourceFile} \cup table_files(acc), suite),
    {SourceFile, ManifestFile} \cup table_files(acc),
    suite, key_len, verdict)

\* lines 226-227 and the exception of the second pass
compile_rows(old, content, keys, acc, suite, key_len, verdict) ==
  IF acc.err # "" THEN raised(old, content, acc.err)
  ELSE IF acc.claims = <<>> THEN early_return(old, content, "no claim rows")
  ELSE compile_tables(old, content, keys, acc, suite, key_len, verdict)

\* lines 93-224
compile_candidates(old, content, cands, suite, key_len, verdict) ==
  IF cands = <<>> THEN early_return(old, content, "no candidates")
  ELSE compile_rows(old, content, pass1(cands, <<>>),
                    pass2(cands, pass1(cands, <<>>), content, EmptyRows),
                    suite, key_len, verdict)

compile_generic_shard(cfg) ==
  compile_candidates(fresh_out_dir(cfg.out_dir), normalize_source_text(cfg.source),
                     cfg.candidates, cfg.suite, cfg.key_len, cfg.verdict)

\* inputs: source texts
SrcOne == <<"d", ".">>
SrcWrapped == <<"d", ".", "\n", "d", ".">>
SrcPara == <<"d", "\n", "\n", "e", ".">>
Sources == {SrcOne, SrcWrapped, SrcPara}

\* inputs: candidate records
CandGood ==
  [subject |-> <<"d">>, predicate |-> <<"e">>, object |-> <<"e">>,
   object_type |-> "entity", tier |-> 0, evidence |-> <<"d", ".">>]
CandLiteral ==
  [subject |-> <<"d">>, predicate |-> <<"e">>, object |-> <<"d", " ">>,
   object_type |-> "literal:string", tier |-> 3, evidence |-> <<"e", ".">>,
   locator |-> [kind |-> "pdf"]]
CandNoSubject ==
  [predicate |-> <<"e">>, object |-> <<"e">>, object_type |-> "entity",
   tier |-> 0, evidence |-> <<"d", ".">>]
CandBlankPredicate ==
  [subject |-> <<"d">>, predicate |-> <<" ">>, object |-> <<"e">>,
   object_type |-> "entity", tier |-> 0, evidence |-> <<"d", ".">>]
CandBadType ==
  [subject |-> <<"d">>, predicate |-> <<"e">>, object |-> <<"e">>,
   object_type |-> "bogus", tier |-> 0, evidence |-> <<"d", ".">>]
CandBadTier ==
  [subject |-> <<"d">>, predicate |-> <<"e">>, object |-> <<"e">>,
   object_type |-> "entity", tier |-> 9, evidence |-> <<"d", ".">>]
CandNoObject ==
  [subject |-> <<"d">>, predicate |-> <<"e">>, object_type |-> "entity",
   tier |-> 0, evidence |-> <<"d", ".">>]
CandNotFound ==
  [subject |-> <<"d">>, predicate |-> <<"e">>, object |-> <<"e">>,
   object_type |-> "entity", tier |-> 0, evidence |-> <<"e", "e">>]
CandQuote ==
  [subject |-> <<"e">>, predicate |-> <<"e">>, object |-> <<"d">>,
   tier |-> 1, evidence_quote |-> <<"d", ".", " ", "d", ".">>]
CandNoEvidence ==
  [subject |-> <<"d">>, predicate |-> <<"e">>, object |-> <<"e">>,
   object_type |-> "entity", tier |-> 0]
Candidates ==
  {CandGood, CandLiteral, CandNoSubject, CandBlankPredicate, CandBadType,
   CandBadTier, CandNoObject, CandNotFound, CandQuote, CandNoEvidence}

RECURSIVE CandStreams(_)
CandStreams(n) ==
  IF n = 0 THEN {<<>>}
  ELSE CandStreams(n - 1) \cup
       {Append(s, c) : s \in {t \in CandStreams(n - 1) : Len(t) = n - 1}, c \in Candidates}

VARIABLES cc_in, cc_out
compilevars == <<cc_in, cc_out>>

NotCompiled == [result |-> "none"]

\* no compile requested
InitCompile ==
  /\ cc_in = [source |-> <<>>, candidates |-> <<>>, suite |-> SUITE_MLDSA44,
              key_len |-> 3840, verdict |-> "PASS", out_dir |-> {}]
  /\ cc_out = NotCompiled

\* any configuration; verdict is what verify_shard will answer, out_dir the
\* files of an earlier build in the output directory
InitCompileInputs ==
  /\ cc_in \in [source : Sources, candidates : CandStreams(MaxCands),
                suite : {SUITE_MLDSA44, SUITE_ED25519}, key_len : {32, 2528, 3840},
                verdict : {"PASS", "FAIL"},
                out_dir : {{}, {<<"ext", "old">>, ManifestFile}}]
  /\ cc_out = NotCompiled

\* ------------------------------------------------------------------------
\* genesis/axm_build/merkle.py and genesis/axm_verify/crypto.py: the Merkle
\* root of a shard directory.  A directory is the set of its entries below
\* the root; an entry has its relative path (a sequence of components), its
\* kind ("file", "link" for a symbolic link to a regular file, "dirlink" for
\* a symbolic link to a directory), its bytes and its size.  Sizes and the
\* two size limits are counted in MiB.
\* ------------------------------------------------------------------------
MAX_MERKLE_FILE_BYTES == 512
MAX_MERKLE_TOTAL_BYTES == 2048
MAX_MERKLE_FILES == 100000

DirEntry(rel, kind, bytes, size) == [rel |-> rel, kind |-> kind, bytes |-> bytes, size |-> size]

\* the entries a directory of the model may hold
EntryPool ==
  {DirEntry(<<"manifest.json">>, "file", "m", 1),
   DirEntry(<<"sig", "manifest.sig">>, "file", "s", 1),
   DirEntry(<<"content", "source.txt">>, "file", "x", 1),
   DirEntry(<<"graph", "claims.parquet">>, "file", "c", 1),
   DirEntry(<<"ext", "locators.parquet">>, "file", "l", 1),
   DirEntry(<<"ext", "linked.parquet">>, "link", "k", 1),
   DirEntry(<<"extra">>, "dirlink", "", 0),
   DirEntry(<<"content", "big.bin">>, "file", "b", 513)}

\* the paths of the pool in the order of their UTF-8 bytes ("ext/..." sorts
\* before "extra")
PathOrder ==
  << <<"content", "big.bin">>, <<"content", "source.txt">>, <<"ext", "linked.parquet">>,
     <<"ext", "locators.parquet">>, <<"extra">>, <<"graph", "claims.parquet">>,
     <<"manifest.json">>, <<"sig", "manifest.sig">> >>

\* files.sort(key=lambda x: x[0].encode("utf-8"))
sort_files(S) ==
  LET rels == SelectSeq(PathOrder, LAMBDA r : \E e \in S : e.rel = r)
  IN [i \in 1..Len(rels) |-> CHOOSE e \in S : e.rel = rels[i]]

\* merkle.py: rel in EXCLUDE_PATHS or rel.startswith("sig/")
builder_excluded(rel) == rel = <<"manifest.json">> \/ (Len(rel) > 1 /\ rel[1] = "sig")

\* merkle.py _collect_files: rglob("*") does not descend into a linked
\* directory, and is_file() is true for a regular file and for a link to one
collect_files(dir) ==
  sort_files({e \in dir : e.kind \in {"file", "link"} /\ ~builder_excluded(e.rel)})

\* crypto.py: rel == "manifest.json" or rel.startswith("sig/")
verifier_excluded_manifest_only(rel) == rel = <<"manifest.json">>
verifier_excluded(rel) == rel = <<"manifest.json">> \/ (Len(rel) > 1 /\ rel[1] = "sig")

\* the files os.walk reaches that are counted: linked directories are taken
\* out of dirs, a linked file raises before this point
verifier_counted(dir) == {e \in dir : e.kind = "file" /\ ~verifier_excluded(e.rel)}

RECURSIVE SumSizes(_)
SumSizes(S) ==
  IF S = {} THEN 0
  ELSE LET e == CHOOSE x \in S : TRUE IN e.size + SumSizes(S \ {e})

\* crypto.py _collect_and_validate_files: the ValueError cases
verifier_refuses(dir) ==
  \/ \E e \in dir : e.kind = "link"
  \/ \E e \in verifier_counted(dir) : e.size > MAX_MERKLE_FILE_BYTES
  \/ Cardinality(verifier_counted(dir)) > MAX_MERKLE_FILES
  \/ SumSizes(verifier_counted(dir)) > MAX_MERKLE_TOTAL_BYTES

collect_and_validate_files(dir) == sort_files(verifier_counted(dir))

\* the legacy tree: no domain prefix, the odd node is paired with itself
EMPTY_ROOT_LEGACY == <<"empty-legacy">>
LegacyNode(left, right) == <<"legacy-node", left, right>>

RECURSIVE legacy_next_level(_)
legacy_next_level(level) ==
  IF level = <<>> THEN <<>>
  ELSE IF Len(level) = 1 THEN <<LegacyNode(level[1], level[1])>>
  ELSE <<LegacyNode(level[1], level[2])>> \o legacy_next_level(SubSeq(level, 3, Len(level)))

RECURSIVE legacy_reduce(_)
legacy_reduce(level) ==
  IF Len(level) > 1 THEN legacy_reduce(legacy_next_level(level)) ELSE level[1]

merkle_tree_legacy(leaves) ==
  IF leaves = <<>> THEN EMPTY_ROOT_LEGACY ELSE legacy_reduce(leaves)

\* the leaf of one file under each suite, and digest.hex()
file_leaf(e, suite) ==
  IF suite = SUITE_MLDSA44 THEN LeafDigest(<<e.rel, e.bytes>>)
  ELSE <<"legacy-leaf", e.rel, e.bytes>>

Hex(digest) == [hex |-> digest]

\* the second half of both compute_merkle_root functions
root_of_files(files, suite) ==
  IF suite = SUITE_MLDSA44
  THEN Hex(merkle_tree_mldsa44([i \in 1..Len(files) |-> file_leaf(files[i], suite)]))
  ELSE Hex(merkle_tree_legacy([i \in 1..Len(files) |-> file_leaf(files[i], suite)]))

\* a root, or the ValueError
RootResult(err, root) == [err |-> err, root |-> root]

\* axm_build.merkle.compute_merkle_root
builder_merkle_root(dir, suite) == RootResult(FALSE, root_of_files(collect_files(dir), suite))

\* axm_verify.crypto.compute_merkle_root
verifier_merkle_root(dir, suite) ==
  IF verifier_refuses(dir) THEN RootResult(TRUE, Hex(<<>>))
  ELSE RootResult(FALSE, root_of_files(collect_and_validate_files(dir), suite))

VARIABLES md_in, md_build, md_verify
mdvars == <<md_in, md_build, md_verify>>

NoRoot == [err |-> FALSE, root |-> [hex |-> <<"none">>]]

\* no directory to hash
InitMd ==
  /\ md_in = [dir |-> {}, suite |-> SUITE_MLDSA44]
  /\ md_build = NoRoot
  /\ md_verify = NoRoot

\* any directory made of entries of the pool, either suite
InitMdInputs ==
  /\ md_in \in [dir : SUBSET EntryPool, suite : {SUITE_MLDSA44, SUITE_ED25519}]
  /\ md_build = NoRoot
  /\ md_verify = NoRoot

VARIABLES
  cli_store,  \* the shard ids with a directory in the shard store
  cli_last    \* the last verify or mount command and how it ended

clivars == <<cli_store, cli_last>>

\* ------------------------------------------------------------------------
\* forge/axm_forge/routing/emitter.py and validator.py.  A text is a
\* sequence of characters, a file a sequence of bytes.  source.txt is opened
\* in text mode ('w', encoding='utf-8', newline left at its default), so
\* every "\n" written goes to the file as the platform's os.linesep.
\* ------------------------------------------------------------------------
MaxSegments == 2
MaxTextLen == 2

EmitChars == {"a", "e'", "LF", "SP"}

\* str.encode('utf-8') of one character
Utf8Char(ch) ==
  CASE ch = "a" -> <<"61">>
    [] ch = "e'" -> <<"c3", "a9">>
    [] ch = "LF" -> <<"0a">>
    [] ch = "SP" -> <<"20">>

RECURSIVE Utf8(_)
Utf8(text) == IF text = <<>> THEN <<>> ELSE Utf8Char(Head(text)) \o Utf8(Tail(text))

\* os.linesep in bytes: POSIX and Windows
LineSeps == { <<"0a">>, <<"0d", "0a">> }

\* TextIOWrapper.write with newline=None: "\n" becomes os.linesep, then the
\* text is encoded
RECURSIVE text_mode_bytes(_, _)
text_mode_bytes(text, linesep) ==
  IF text = <<>> THEN <<>>
  ELSE (IF Head(text) = "LF" THEN linesep ELSE Utf8Char(Head(text)))
         \o text_mode_bytes(Tail(text), linesep)

\* text.strip() is empty
strips_to_empty(text) == \A i \in 1..Len(text) : text[i] \in {"LF", "SP"}

EmitTexts == UNION {[1..n -> EmitChars] : n \in 1..MaxTextLen}

VARIABLES
  em_linesep,   \* os.linesep of the platform, in bytes
  source_txt,   \* the bytes of source.txt
  provenance_entries,  \* the entries written to provenance.jsonl, with the text of each
  current_byte_offset,
  em_closed,    \* Emitter._closed
  em_valid      \* "none", or what validate_emission answered after close

emitvars == <<em_linesep, source_txt, provenance_entries, current_byte_offset, em_closed,
              em_valid>>

\* Emitter.__init__ on one platform
InitEmit ==
  /\ em_linesep = <<"0a">>
  /\ source_txt = <<>>
  /\ provenance_entries = <<>>
  /\ current_byte_offset = 0
  /\ em_closed = FALSE
  /\ em_valid = "none"

\* Emitter.__init__ on either platform
InitEmitInputs ==
  /\ em_linesep \in LineSeps
  /\ source_txt = <<>>
  /\ provenance_entries = <<>>
  /\ current_byte_offset = 0
  /\ em_closed = FALSE
  /\ em_valid = "none"

\* ProvenanceEntry(byte_start, byte_end, ...); text is kept for the claims
ProvenanceEntry(byte_start, text) ==
  [byte_start |-> byte_start, byte_end |-> byte_start + Len(Utf8(text)), text |-> text]

\* validate_source_txt: an empty file is a warning, a file that does not end
\* with "\n" an error
validate_source_txt(content) ==
  content = <<>> \/ content[Len(content)] = "0a"

\* validate_provenance_jsonl, the checks on entry i
entry_valid(entries, i, source_txt_size) ==
  /\ entries[i].byte_start >= 0
  /\ entries[i].byte_end > entries[i].byte_start
  /\ entries[i].byte_end <= source_txt_size
  /\ IF i > 1 THEN entries[i].byte_start = entries[i - 1].byte_end + 1
     ELSE entries[i].byte_start = 0

validate_provenance_jsonl(entries, source_txt_size) ==
  /\ entries # <<>>
  /\ \A i \in 1..Len(entries) : entry_valid(entries, i, source_txt_size)
  /\ entries[Len(entries)].byte_end + 1 = source_txt_size

\* validate_emission; candidates.jsonl is the empty placeholder close() wrote
validate_emission(content, entries) ==
  IF validate_source_txt(content) /\ validate_provenance_jsonl(entries, Len(content))
  THEN "valid" ELSE "invalid"

\* ------------------------------------------------------------------------
\* spectra/axiom_runtime/constraint: the controlling constraint of a request
\* ------------------------------------------------------------------------
MaxMatches == 3

TYPE_PRECEDENCE == <<"ROE", "FSCM", "ACM", "WCS", "FPCON", "EMCON", "JRFL", "GUIDANCE">>

\* the types _find_matches gives the claims of the model
MatchTypes == {"ROE", "FSCM", "ACM", "GUIDANCE"}

\* _prec_index(ctype)
prec_index(ctype) ==
  IF \E i \in 1..Len(TYPE_PRECEDENCE) : TYPE_PRECEDENCE[i] = ctype
  THEN (CHOOSE i \in 1..Len(TYPE_PRECEDENCE) : TYPE_PRECEDENCE[i] = ctype) - 1
  ELSE Len(TYPE_PRECEDENCE) + 100

\* sorted(matches, key=_prec_index)[0]: the first match of the least index
first_by_precedence(matches) ==
  CHOOSE i \in 1..Len(matches) :
    /\ \A j \in 1..Len(matches) : prec_index(matches[i]) <= prec_index(matches[j])
    /\ \A j \in 1..(i - 1) : prec_index(matches[j]) > prec_index(matches[i])

\* evaluate, the choice of the controlling constraint: the position in
\* matches of the one chosen, 0 for None
controlling(matches) ==
  IF matches = <<>> THEN 0
  ELSE IF \E i \in 1..Len(matches) : matches[i] = "FSCM"
  THEN CHOOSE i \in 1..Len(matches) :
         matches[i] = "FSCM" /\ \A j \in 1..(i - 1) : matches[j] # "FSCM"
  ELSE first_by_precedence(matches)

VARIABLES
  ce_matches,     \* the constraint types of the matches of the request, in order
  ce_controlling  \* -1 before evaluate, then the position of the controlling match

cevars == <<ce_matches, ce_controlling>>

InitCe ==
  /\ ce_matches = <<>>
  /\ ce_controlling = -1

InitCeInputs ==
  /\ ce_matches \in UNION {[1..n -> MatchTypes] : n \in 0..MaxMatches}
  /\ ce_controlling = -1

\* ------------------------------------------------------------------------
\* forge/axm_forge/extraction/tiers/tier3_stage1.py: run_stage1 and its
\* resume point.  Sentence i of sentences.jsonl has index i (from 0); of
\* raw_claims.jsonl the model keeps the last_sent_idx of every line, which
\* is all that _get_resume_point reads.
\* ------------------------------------------------------------------------
MaxSentences == 6
MaxInterrupts == 2

BatchSizes == {3, 4}
Overlaps == {0, 1, 2}

Max2(a, b) == IF a >= b THEN a ELSE b
Min2(a, b) == IF a <= b THEN a ELSE b

RECURSIVE MaxOfSeq(_)
MaxOfSeq(s) == IF s = <<>> THEN -1 ELSE Max2(Head(s), MaxOfSeq(Tail(s)))

\* _get_resume_point(out_path, overlap)
get_resume_point(lines, overlap) ==
  IF MaxOfSeq(lines) < 0 THEN 0 ELSE Max2(0, MaxOfSeq(lines) - overlap + 1)

\* step = max(1, batch_size - overlap)
batch_step(cfg) == Max2(1, cfg.batch_size - cfg.overlap)

\* batch[-1]["index"] of segments[curr : curr + batch_size]
batch_last_sent_idx(cfg, curr) == Min2(curr + cfg.batch_size, cfg.n) - 1

VARIABLES
  s1_cfg,        \* the number of sentences, batch_size and overlap
  s1_out,        \* raw_claims.jsonl: the last_sent_idx of its lines
  s1_run,        \* the run: where it is and its curr
  s1_processed,  \* the batch starts processed since the first run, in order
  s1_interrupts  \* how many times the run was interrupted

s1vars == <<s1_cfg, s1_out, s1_run, s1_processed, s1_interrupts>>

Stage1Run(pc, curr) == [pc |-> pc, curr |-> curr]

InitS1 ==
  /\ s1_cfg = [n |-> 1, batch_size |-> 3, overlap |-> 0]
  /\ s1_out = <<>>
  /\ s1_run = Stage1Run("idle", 0)
  /\ s1_processed = <<>>
  /\ s1_interrupts = 0

InitS1Inputs ==
  /\ s1_cfg \in [n : 1..MaxSentences, batch_size : BatchSizes, overlap : Overlaps]
  /\ s1_out = <<>>
  /\ s1_run = Stage1Run("idle", 0)
  /\ s1_processed = <<>>
  /\ s1_interrupts = 0

\* the variables of the command line, the forge and the constraint engine
extravars == <<clivars, emitvars, cevars, s1vars>>

morevars == <<savevars, pinvars, merklevars, compilevars, mdvars, extravars>>

InitPin ==
  /\ lockfile = [exists |-> FALSE, pins |-> <<>>]
  /\ pinned = {}

\* _resolve_from_lock: <<>> stands for the failure exits (no lockfile, ref
\* not in the lockfile)
resolve_from_lock(lf, ref) ==
  IF ~lf.exists THEN <<>>
  ELSE IF \A i \in 1..Len(lf.pins) : lf.pins[i].ref # ref THEN <<>>
  ELSE lf.pins[CHOOSE i \in 1..Len(lf.pins) : lf.pins[i].ref = ref].shard_id

\* the resolve command: "if lock: ... else: reg.resolve(ref)"
cli_resolve_from_registry(data, lf, use_lock, ref) == resolve(data, ref)

cli_resolve(data, lf, use_lock, ref) ==
  IF use_lock THEN resolve_from_lock(lf, ref) ELSE resolve(data, ref)

\* ------------------------------------------------------------------------
\* axm_cli.py: verify and mount.  The shard store is the set of shard ids
\* that have a directory under shards_dir; the last command leaves what it
\* resolved and its exit code.
\* ------------------------------------------------------------------------
CliRun(cmd, ref, use_lock, shard_id, exit) ==
  [cmd |-> cmd, ref |-> ref, use_lock |-> use_lock, shard_id |-> shard_id, exit |-> exit]

NoCommand == CliRun("none", <<>>, FALSE, <<>>, 0)

InitCli ==
  /\ cli_store = {}
  /\ cli_last = NoCommand

InitCliInputs ==
  /\ cli_store \in SUBSET {S1, S2}
  /\ cli_last = NoCommand

\* _shard_path(...).exists()
shard_path_exists(store, shard_id) == shard_id \in store

\* _resolve_to_path: 2 when the registry cannot resolve, 4 when the
\* directory is missing, 0 when the command goes on
resolve_to_path_exit(data, store, ref) ==
  IF resolve(data, ref) = <<>> THEN 2
  ELSE IF ~shard_path_exists(store, resolve(data, ref)) THEN 4
  ELSE 0

\* _resolve_from_lock: 1 when there is no lockfile, 2 when the ref is not
\* pinned, 0 when the command goes on
resolve_from_lock_exit(lf, ref) ==
  IF ~lf.exists THEN 1
  ELSE IF resolve_from_lock(lf, ref) = <<>> THEN 2
  ELSE 0

\* mount, "if lock:" branch: the path is built and not tested
mount_lock_branch(lf, store, ref) == resolve_from_lock_exit(lf, ref)

\* verify, after its ref is resolved: exit 3 unless the verifier returns 0
verify_tail(returncode) == IF returncode = 0 THEN 0 ELSE 3

\* mount, after its ref is resolved
mount_tail(no_verify, returncode, spectra_ok) ==
  IF ~no_verify /\ returncode # 0 THEN 3
  ELSE IF ~spectra_ok THEN 5
  ELSE 0

\* the keys of the artifacts table in code point order (sort_keys=True)
KeyOrder == << <<"art">>, <<"latest">>, <<"lib">> >>
KeyRank(name) == CHOOSE i \in 1..Len(KeyOrder) : KeyOrder[i] = name

RECURSIVE SortedEntries(_)
SortedEntries(data) ==
  IF data = <<>> THEN <<>>
  ELSE LET m == CHOOSE i \in 1..Len(data) :
                  \A j \in 1..Len(data) : KeyRank(data[i].name) <= KeyRank(data[j].name)
       IN <<data[m]>> \o SortedEntries(SubSeq(data, 1, m - 1) \o SubSeq(data, m + 1, Len(data)))

Piece(k, v) == [k |-> k, v |-> v]

\* json.dump(self._data, f, sort_keys=True): the pieces written, in order
json_dump(data) ==
  <<Piece("open", <<>>)>>
    \o [i \in 1..Len(data) |-> Piece("entry", <<SortedEntries(data)[i]>>)]
    \o <<Piece("close", <<>>)>>

\* json.load accepts the text
json_parses(f) ==
  /\ Len(f) >= 2
  /\ f[1].k = "open"
  /\ f[Len(f)].k = "close"
  /\ \A i \in 2..(Len(f) - 1) : f[i].k = "entry"

\* json.load: the artifacts table, in file order
json_load(f) == [i \in 1..(Len(f) - 2) |-> f[i + 1].v[1]]

\* a write of one piece at a file offset; an offset past the end leaves a hole
WriteAt(f, pos, piece) ==
  [i \in 1..(IF pos > Len(f) THEN pos ELSE Len(f)) |->
     IF i = pos THEN piece
     ELSE IF i <= Len(f) THEN f[i]
     ELSE Piece("hole", <<>>)]

Down == [pc |-> "down", data |-> <<>>, pos |-> 0]

InitSave ==
  /\ disk = json_dump(<<>>)
  /\ wr = [w \in Writers |-> Down]

vars == <<enginevars, regvars, concvars, morevars>>

Op(op, path, mid, sql, ok, ret, verified, created, deduped, handed, logged) ==
  [op |-> op, path |-> path, mid |-> mid, sql |-> sql, ok |-> ok, ret |-> ret,
   verified |-> verified, created |-> created, deduped |-> deduped, handed |-> handed,
   logged |-> logged]

WithinBounds(st) ==
  /\ st.ev.n <= MaxEvents
  /\ Cardinality(st.temp_dirs) <= MaxTemp

Install(st) ==
  /\ WithinBounds(st)
  /\ mount_specs' = st.specs
  /\ claims_idx' = st.claims
  /\ views' = st.views
  /\ mount_dirs' = st.mount_dirs
  /\ temp_dirs' = st.temp_dirs
  /\ cat_mounts' = st.cat
  /\ system_events' = st.ev.n

InitEngine ==
  /\ mount_specs = {}
  /\ claims_idx = {}
  /\ views = {}
  /\ mount_dirs = {}
  /\ temp_dirs = {}
  /\ cat_mounts = <<>>
  /\ system_events = 0
  /\ removed = {}
  /\ lastOp = Op("init", "", NoMount, <<>>, TRUE, NoMount, FALSE, {}, FALSE, FALSE, <<>>)

\* mount(path, secret_b64): mount_shard with origin="api"
Mount(path, secret) ==
  LET r == mount_shard(EngineState, path, secret, "api", "")
  IN /\ Install(r.st)
     /\ lastOp' = Op("mount", path, NoMount, <<>>, r.ok, r.ret, r.verified, r.created,
                     r.deduped, FALSE, r.st.ev.logged)
     /\ UNCHANGED <<removed, regvars, concvars, morevars>>

Unmount(mount_id) ==
  /\ Install(unmount(EngineState, mount_id))
  /\ lastOp' = Op("unmount", "", mount_id, <<>>, TRUE, NoMount, FALSE, {}, FALSE, FALSE,
                  unmount(EngineState, mount_id).ev.logged)
  /\ UNCHANGED <<removed, regvars, concvars, morevars>>

Query(sql) ==
  LET r == query_json(EngineState, sql)
  IN /\ Install(r.st)
     /\ lastOp' = Op("query", "", NoMount, sql, r.ok, NoMount, FALSE, {}, FALSE, r.handed, <<>>)
     /\ UNCHANGED <<removed, regvars, concvars, morevars>>

Boot ==
  LET b == boot(EngineState)
  IN /\ Install(b.st)
     /\ lastOp' = Op("boot", "", NoMount, <<>>, b.failed = 0, NoMount, FALSE, b.created,
                     FALSE, FALSE, b.st.ev.logged)
     /\ UNCHANGED <<removed, regvars, concvars, morevars>>

\* the process stops and a new engine is constructed on the same catalog:
\* the in-memory tables and the in-memory DuckDB start empty
Restart ==
  /\ mount_specs' = {}
  /\ claims_idx' = {}
  /\ views' = {}
  /\ mount_dirs' = {}
  /\ lastOp' = Op("restart", "", NoMount, <<>>, TRUE, NoMount, FALSE, {}, FALSE, FALSE, <<>>)
  /\ UNCHANGED <<temp_dirs, cat_mounts, system_events, removed, regvars, concvars, morevars>>

\* the environment deletes a shard directory
RemovePath(path) ==
  /\ path \notin removed
  /\ Cardinality(removed) < MaxRemoved
  /\ removed' = removed \cup {path}
  /\ lastOp' = Op("remove", path, NoMount, <<>>, TRUE, NoMount, FALSE, {}, FALSE, FALSE, <<>>)
  /\ UNCHANGED <<mount_specs, claims_idx, views, mount_dirs, temp_dirs,
                 cat_mounts, system_events, regvars, concvars, morevars>>

Init ==
  /\ InitEngine /\ InitReg /\ InitConc /\ InitSave /\ InitPin /\ InitMerkle
  /\ InitCompile /\ InitMd /\ InitCli /\ InitEmit /\ InitCe /\ InitS1

NextEngine ==
  \/ \E i \in MountInputs : Mount(i[1], i[2])
  \/ \E m \in MountIds : Unmount(m)
  \/ \E q \in SqlTexts : Query(q)
  \/ Boot
  \/ Restart
  \/ \E p \in RemovablePaths : RemovePath(p)

Next == NextEngine

\* the mount runtime, every call run to completion
Spec == Init /\ [][Next]_vars

\* ------------------------------------------------------------------------
\* registry/resolve.py: the calls that write the registry
\* ------------------------------------------------------------------------
AddArtifact(name, shard_id, aliases) ==
  /\ RegInstall(add_artifact(registry, name, shard_id, "r", aliases))
  /\ lastReg' = RegOp("add_artifact", name, shard_id,
                      add_artifact(registry, name, shard_id, "r", aliases).ok)
  /\ UNCHANGED <<enginevars, concvars, morevars>>

SetCurrent(name, shard_id) ==
  /\ RegInstall(set_current(registry, name, shard_id, "r"))
  /\ lastReg' = RegOp("set_current", name, shard_id,
                      set_current(registry, name, shard_id, "r").ok)
  /\ UNCHANGED <<enginevars, concvars, morevars>>

AddAlias(name, alias) ==
  /\ RegInstall(add_alias(registry, name, alias))
  /\ lastReg' = RegOp("add_alias", name, alias, add_alias(registry, name, alias).ok)
  /\ UNCHANGED <<enginevars, concvars, morevars>>

NextReg ==
  \/ \E n \in ArtifactNames, sid \in ShardIdInputs, al \in AliasLists : AddArtifact(n, sid, al)
  \/ \E n \in ArtifactNames \cup AliasInputs, sid \in ShardIdInputs : SetCurrent(n, sid)
  \/ \E n \in ArtifactNames \cup AliasInputs, al \in AliasInputs : AddAlias(n, al)

\* the registry
SpecReg == Init /\ [][NextReg]_vars

\* ------------------------------------------------------------------------
\* engine.py, one step per stretch of a call that runs either wholly inside
\* or wholly outside "with self._lock"; the stretch inside the lock is cut
\* where it turns from the in-memory tables to the catalog
\* ------------------------------------------------------------------------
ConcMountInputs == {<<"p1", "">>, <<"p2", "">>, <<"p4", "">>, <<"e1", "k1">>}

\* mount_shard returns or raises: an API call is over, boot() goes on
Return(l, ok) ==
  IF l.origin = "api" THEN Idle
  ELSE IF ok THEN [Idle EXCEPT !.pc = "b_row", !.origin = "boot", !.rows = Tail(l.rows)]
  ELSE [Idle EXCEPT !.pc = "b_fail", !.origin = "boot", !.rows = l.rows]

\* mount_shard, lines 302-347: everything before the lock
StartMount(t, l) ==
  IF transport_rejects(l.path, l.secret, l.transport, Disk(l.path))
  THEN /\ thr' = [thr EXCEPT ![t] = Return(l, FALSE)]
       /\ UNCHANGED temp_dirs
  ELSE /\ temp_dirs' = IF l.transport = "clarion"
                       THEN temp_dirs \cup {mkdtemp(temp_dirs)} ELSE temp_dirs
       /\ Cardinality(temp_dirs') <= MaxTemp
       /\ thr' = [thr EXCEPT ![t] =
                    [l EXCEPT
                       !.tmp = IF l.transport = "clarion" THEN mkdtemp(temp_dirs) ELSE 0,
                       !.mid = MountId(Disk(l.path).shard_id, Disk(l.path).merkle_root),
                       !.pc = IF \/ ~verify_constitution(l.path, l.transport)
                                 \/ manifest_rejects(Disk(l.path))
                              THEN "m_except" ELSE "m_lock"]]

CallMount(t, path, secret) ==
  /\ thr[t].pc = "idle"
  /\ StartMount(t, [Idle EXCEPT !.path = path, !.secret = secret, !.origin = "api",
                                !.transport = detect_format(path)])
  /\ actor' = t
  /\ UNCHANGED <<mount_specs, claims_idx, views, mount_dirs, cat_mounts, system_events,
                 removed, lastOp, lock, regvars, morevars>>

\* line 350: "with self._lock" is entered
MAcquire(t) ==
  /\ thr[t].pc = "m_lock"
  /\ lock = NoLock
  /\ lock' = t
  /\ thr' = [thr EXCEPT ![t].pc = "m_tables"]
  /\ actor' = t
  /\ UNCHANGED <<enginevars, regvars, morevars>>

\* lines 362-420: a new pair gets its views and its entries in the tables;
\* a CREATE VIEW that raises leaves the lock on its way to the except-branch
MTablesNew(t, l, reg) ==
  IF reg.err
  THEN /\ Install([EngineState EXCEPT !.views = reg.views])
       /\ thr' = [thr EXCEPT ![t].pc = "m_except"]
       /\ lock' = NoLock
  ELSE /\ Install(session_tables(EngineState, l.path, l.transport, l.tmp, Disk(l.path),
                                 l.mid, reg))
       /\ thr' = [thr EXCEPT ![t].pc = "m_persist"]
       /\ UNCHANGED lock

\* lines 351-420: inside the lock, a mounted pair returns its session
MTables(t) ==
  /\ thr[t].pc = "m_tables"
  /\ lock = t
  /\ IF already_mounted(mount_specs, thr[t].mid)
     THEN /\ Install([EngineState EXCEPT !.temp_dirs = @ \ {thr[t].tmp}])
          /\ thr' = [thr EXCEPT ![t] = Return(thr[t], TRUE)]
          /\ lock' = NoLock
     ELSE MTablesNew(t, thr[t],
                     register_views(views, Disk(thr[t].path),
                                    [path |-> thr[t].path, tmp |-> thr[t].tmp],
                                    MountPrefix(thr[t].mid)))
  /\ actor' = t
  /\ UNCHANGED <<removed, lastOp, regvars, morevars>>

\* lines 422-447: still inside the lock, the catalog row and the event
MPersist(t) ==
  /\ thr[t].pc = "m_persist"
  /\ lock = t
  /\ Install(persist_mount(EngineState, thr[t].mid, thr[t].path, thr[t].secret,
                           thr[t].transport, thr[t].origin))
  /\ thr' = [thr EXCEPT ![t] = Return(thr[t], TRUE)]
  /\ lock' = NoLock
  /\ actor' = t
  /\ UNCHANGED <<removed, lastOp, regvars, morevars>>

\* lines 449-456: the except-branch, after the lock (if taken) was left
MExcept(t) ==
  /\ thr[t].pc = "m_except"
  /\ Install(mount_failed(EngineState, thr[t].tmp, thr[t].origin, TRUE, {}).st)
  /\ thr' = [thr EXCEPT ![t] = Return(thr[t], FALSE)]
  /\ actor' = t
  /\ UNCHANGED <<removed, lastOp, lock, regvars, morevars>>

\* unmount, line 472: "with self._lock" is entered
CallUnmount(t, mount_id) ==
  /\ thr[t].pc = "idle"
  /\ lock = NoLock
  /\ lock' = t
  /\ thr' = [thr EXCEPT ![t] = [Idle EXCEPT !.pc = "u_tables", !.mid = mount_id]]
  /\ actor' = t
  /\ UNCHANGED <<enginevars, regvars, morevars>>

\* unmount, lines 473-483
UTables(t) ==
  /\ thr[t].pc = "u_tables"
  /\ lock = t
  /\ IF thr[t].mid \notin SpecIds(mount_specs)
     THEN /\ Install([EngineState EXCEPT !.claims = @ \ {thr[t].mid}])
          /\ thr' = [thr EXCEPT ![t] = Idle]
          /\ lock' = NoLock
     ELSE /\ Install(unmount_tables(EngineState, thr[t].mid,
                                    SpecOf(mount_specs, thr[t].mid)))
          /\ thr' = [thr EXCEPT ![t].pc = "u_persist"]
          /\ UNCHANGED lock
  /\ actor' = t
  /\ UNCHANGED <<removed, lastOp, regvars, morevars>>

\* unmount, lines 485-487
UPersist(t) ==
  /\ thr[t].pc = "u_persist"
  /\ lock = t
  /\ Install(unmount_persist(EngineState, thr[t].mid))
  /\ thr' = [thr EXCEPT ![t] = Idle]
  /\ lock' = NoLock
  /\ actor' = t
  /\ UNCHANGED <<removed, lastOp, regvars, morevars>>

\* boot, lines 232-233
CallBoot(t) ==
  /\ thr[t].pc = "idle"
  /\ Install([EngineState EXCEPT !.ev = log_system_event(@, "boot_start")])
  /\ thr' = [thr EXCEPT ![t] = [Idle EXCEPT !.pc = "b_row", !.origin = "boot",
                                            !.rows = get_active_mounts(cat_mounts)]]
  /\ actor' = t
  /\ UNCHANGED <<removed, lastOp, lock, regvars, morevars>>

\* boot, lines 238-262: the next row, up to the lock inside mount_shard
BRow(t) ==
  /\ thr[t].pc = "b_row"
  /\ thr[t].rows # <<>>
  /\ IF \/ Head(thr[t].rows).transport = "clarion" /\ Head(thr[t].rows).enc_secret = ""
        \/ Head(thr[t].rows).shard_path \in removed
     THEN /\ thr' = [thr EXCEPT ![t].pc = "b_fail"]
          /\ UNCHANGED temp_dirs
     ELSE StartMount(t, [thr[t] EXCEPT
                           !.path = Head(thr[t].rows).shard_path,
                           !.transport = Head(thr[t].rows).transport,
                           !.secret = IF Head(thr[t].rows).transport = "clarion"
                                      THEN Head(thr[t].rows).enc_secret ELSE ""])
  /\ actor' = t
  /\ UNCHANGED <<mount_specs, claims_idx, views, mount_dirs, cat_mounts, system_events,
                 removed, lastOp, lock, regvars, morevars>>

\* boot, lines 265-272: the except-branch of the loop
BFail(t) ==
  /\ thr[t].pc = "b_fail"
  /\ Install([EngineState EXCEPT
                !.cat = set_mount_error(@, Head(thr[t].rows).mount_id),
                !.ev = log_system_event(@, "boot_mount_fail")])
  /\ thr' = [thr EXCEPT ![t] = [Idle EXCEPT !.pc = "b_row", !.origin = "boot",
                                            !.rows = Tail(thr[t].rows)]]
  /\ actor' = t
  /\ UNCHANGED <<removed, lastOp, lock, regvars, morevars>>

\* boot, lines 274-275
BDone(t) ==
  /\ thr[t].pc = "b_row"
  /\ thr[t].rows = <<>>
  /\ Install([EngineState EXCEPT !.ev = log_system_event(@, "boot_complete")])
  /\ thr' = [thr EXCEPT ![t] = Idle]
  /\ actor' = t
  /\ UNCHANGED <<removed, lastOp, lock, regvars, morevars>>

NextConc ==
  \/ \E t \in Threads : \E i \in ConcMountInputs : CallMount(t, i[1], i[2])
  \/ \E t \in Threads : MAcquire(t)
  \/ \E t \in Threads : MTables(t)
  \/ \E t \in Threads : MPersist(t)
  \/ \E t \in Threads : MExcept(t)
  \/ \E t \in Threads : \E m \in MountIds : CallUnmount(t, m)
  \/ \E t \in Threads : UTables(t)
  \/ \E t \in Threads : UPersist(t)
  \/ \E t \in Threads : CallBoot(t)
  \/ \E t \in Threads : BRow(t)
  \/ \E t \in Threads : BFail(t)
  \/ \E t \in Threads : BDone(t)
  \/ \E p \in RemovablePaths : RemovePath(p)

\* the mount runtime under concurrent callers
SpecConc == Init /\ [][NextConc]_vars

\* ------------------------------------------------------------------------
\* registry/resolve.py: _load and _save, one step per system call
\* ------------------------------------------------------------------------
outside_save == <<enginevars, regvars, concvars, pinvars, merklevars, compilevars, mdvars, extravars>>

\* Registry(path): __init__ calls _load; a text json.load rejects raises
Load(w) ==
  /\ wr[w].pc = "down"
  /\ wr' = [wr EXCEPT ![w] = IF json_parses(disk)
                             THEN [pc |-> "ready", data |-> json_load(disk), pos |-> 0]
                             ELSE Down]
  /\ UNCHANGED <<disk, outside_save>>

\* a registry call up to its _save()
CallDone(w, r) ==
  /\ r.ok
  /\ RegWithinBounds(r.data)
  /\ wr' = [wr EXCEPT ![w] = [pc |-> "save", data |-> r.data, pos |-> 0]]
  /\ UNCHANGED <<disk, outside_save>>

WriterAdd(w, name, shard_id) ==
  /\ wr[w].pc = "ready"
  /\ CallDone(w, add_artifact(wr[w].data, name, shard_id, "r", <<>>))

WriterSet(w, name, shard_id) ==
  /\ wr[w].pc = "ready"
  /\ CallDone(w, set_current(wr[w].data, name, shard_id, "r"))

\* _save, line 246: open(self.path, "w") truncates the file
SaveOpen(w) ==
  /\ wr[w].pc = "save"
  /\ disk' = <<>>
  /\ wr' = [wr EXCEPT ![w].pc = "write", ![w].pos = 1]
  /\ UNCHANGED outside_save

\* _save, lines 247-248: the file object flushes its buffer, one piece or
\* several at a time, at this writer's offset
RECURSIVE WriteFrom(_, _, _, _)
WriteFrom(f, out, pos, n) ==
  IF n = 0 THEN f ELSE WriteFrom(WriteAt(f, pos, out[pos]), out, pos + 1, n - 1)

SaveWrite(w, n) ==
  /\ wr[w].pc = "write"
  /\ wr[w].pos + n - 1 <= Len(json_dump(wr[w].data))
  /\ disk' = WriteFrom(disk, json_dump(wr[w].data), wr[w].pos, n)
  /\ wr' = [wr EXCEPT ![w].pos = @ + n]
  /\ UNCHANGED outside_save

\* the with-block is left: everything is written and the file is closed
SaveClose(w) ==
  /\ wr[w].pc = "write"
  /\ wr[w].pos > Len(json_dump(wr[w].data))
  /\ wr' = [wr EXCEPT ![w].pc = "ready", ![w].pos = 0]
  /\ UNCHANGED <<disk, outside_save>>

\* the process dies; what it has not written is lost
Crash(w) ==
  /\ wr[w].pc # "down"
  /\ wr' = [wr EXCEPT ![w] = Down]
  /\ UNCHANGED <<disk, outside_save>>

MaxPieces == 4

NextSave ==
  \/ \E w \in Writers : Load(w)
  \/ \E w \in Writers, n \in ArtifactNames : WriterAdd(w, n, S1)
  \/ \E w \in Writers : WriterSet(w, <<"art">>, S2)
  \/ \E w \in Writers : SaveOpen(w)
  \/ \E w \in Writers, n \in 1..MaxPieces : SaveWrite(w, n)
  \/ \E w \in Writers : SaveClose(w)
  \/ \E w \in Writers : Crash(w)

\* the registry file under two writer processes
SpecSave == Init /\ [][NextSave]_vars

\* ------------------------------------------------------------------------
\* axm_cli.py: pin, next to the registry calls that follow it
\* ------------------------------------------------------------------------
PinInputs == { << <<"art">> >>, << <<"latest">> >>, << <<"art">>, <<"latest">> >>,
               << <<"lib">>, S1 >> }

\* pin(refs): every ref is resolved, then the lockfile is written; a ref
\* that does not resolve ends the command before anything is written
Pin(refs) ==
  /\ IF \E i \in 1..Len(refs) : resolve(registry, refs[i]) = <<>>
     THEN /\ lastReg' = RegOp("pin", <<>>, <<>>, FALSE)
          /\ UNCHANGED pinvars
     ELSE /\ lockfile' = [exists |-> TRUE,
                          pins |-> [i \in 1..Len(refs) |->
                                      [ref |-> refs[i],
                                       shard_id |-> resolve(registry, refs[i])]]]
          /\ pinned' = {[ref |-> refs[i], shard_id |-> resolve(registry, refs[i])] :
                          i \in 1..Len(refs)}
          /\ lastReg' = RegOp("pin", <<>>, <<>>, TRUE)
  /\ UNCHANGED <<registry, reg_file, enginevars, concvars, savevars, merklevars, compilevars, mdvars, extravars>>

NextPin ==
  \/ \E n \in ArtifactNames, al \in AliasLists : AddArtifact(n, S1, al)
  \/ \E n \in {<<"art">>, <<"latest">>}, sid \in {S1, S2} : SetCurrent(n, sid)
  \/ \E n \in ArtifactNames : AddAlias(n, <<"latest">>)
  \/ \E refs \in PinInputs : Pin(refs)

\* the registry and a lockfile
SpecPin == Init /\ [][NextPin]_vars

\* ------------------------------------------------------------------------
\* axm_cli.py: verify and mount, next to the registry and pin
\* ------------------------------------------------------------------------
CliRefs == {<<"art">>, <<"latest">>, S1}

\* the verifier's return code and Spectra's answer are inputs; a directory
\* that is missing neither verifies nor mounts
tail_inputs_possible(shard_id, returncode, spectra_ok) ==
  shard_path_exists(cli_store, shard_id) \/ (returncode # 0 /\ ~spectra_ok)

\* axm verify REF
CliVerify(ref, returncode) ==
  /\ tail_inputs_possible(resolve(registry, ref), returncode, FALSE)
  /\ cli_last' =
       CliRun("verify", ref, FALSE, resolve(registry, ref),
              IF resolve_to_path_exit(registry, cli_store, ref) # 0
              THEN resolve_to_path_exit(registry, cli_store, ref)
              ELSE verify_tail(returncode))
  /\ UNCHANGED <<cli_store, enginevars, regvars, concvars, savevars, pinvars, merklevars,
                 compilevars, mdvars, emitvars, cevars, s1vars>>

\* axm mount REF [--lock PATH] [--no-verify]
CliMount(ref, use_lock, no_verify, returncode, spectra_ok) ==
  /\ tail_inputs_possible(cli_resolve(registry, lockfile, use_lock, ref), returncode, spectra_ok)
  /\ cli_last' =
       CliRun("mount", ref, use_lock, cli_resolve(registry, lockfile, use_lock, ref),
              IF use_lock /\ mount_lock_branch(lockfile, cli_store, ref) # 0
              THEN mount_lock_branch(lockfile, cli_store, ref)
              ELSE IF ~use_lock /\ resolve_to_path_exit(registry, cli_store, ref) # 0
              THEN resolve_to_path_exit(registry, cli_store, ref)
              ELSE mount_tail(no_verify, returncode, spectra_ok))
  /\ UNCHANGED <<cli_store, enginevars, regvars, concvars, savevars, pinvars, merklevars,
                 compilevars, mdvars, emitvars, cevars, s1vars>>

NextCli ==
  \/ \E n \in ArtifactNames, al \in AliasLists : AddArtifact(n, S1, al)
  \/ SetCurrent(<<"art">>, S2)
  \/ \E refs \in PinInputs : Pin(refs)
  \/ \E ref \in CliRefs, returncode \in {0, 1} : CliVerify(ref, returncode)
  \/ \E ref \in CliRefs, use_lock \in BOOLEAN, no_verify \in BOOLEAN,
        returncode \in {0, 1}, spectra_ok \in BOOLEAN :
          CliMount(ref, use_lock, no_verify, returncode, spectra_ok)

InitSpecCli ==
  /\ InitEngine /\ InitReg /\ InitConc /\ InitSave /\ InitPin /\ InitMerkle
  /\ InitCompile /\ InitMd /\ InitCliInputs /\ InitEmit /\ InitCe /\ InitS1

\* the registry, a lockfile, a shard store and the two commands
SpecCli == InitSpecCli /\ [][NextCli]_vars

\* ------------------------------------------------------------------------
\* forge/axm_forge/routing: one Emitter, then validate_emission
\* ------------------------------------------------------------------------
not_emit == <<enginevars, regvars, concvars, savevars, pinvars, merklevars, compilevars,
              mdvars, clivars, cevars, s1vars>>

\* emit_segment(segment): an empty segment raises EmitterError before
\* anything is written
EmitSegment(text) ==
  /\ ~em_closed
  /\ Len(provenance_entries) < MaxSegments
  /\ IF strips_to_empty(text)
     THEN UNCHANGED <<source_txt, provenance_entries, current_byte_offset>>
     ELSE /\ source_txt' = source_txt \o text_mode_bytes(text, em_linesep)
                               \o text_mode_bytes(<<"LF">>, em_linesep)
          /\ provenance_entries' =
               Append(provenance_entries, ProvenanceEntry(current_byte_offset, text))
          /\ current_byte_offset' = current_byte_offset + Len(Utf8(text)) + Len(Utf8(<<"LF">>))
  /\ UNCHANGED <<em_linesep, em_closed, em_valid, not_emit>>

\* close()
EmitClose ==
  /\ ~em_closed
  /\ em_closed' = TRUE
  /\ UNCHANGED <<em_linesep, source_txt, provenance_entries, current_byte_offset, em_valid,
                 not_emit>>

\* validate_emission(output_dir) on the closed output
ValidateEmission ==
  /\ em_closed
  /\ em_valid = "none"
  /\ em_valid' = validate_emission(source_txt, provenance_entries)
  /\ UNCHANGED <<em_linesep, source_txt, provenance_entries, current_byte_offset, em_closed,
                 not_emit>>

NextEmit ==
  \/ \E text \in EmitTexts : EmitSegment(text)
  \/ EmitClose
  \/ ValidateEmission

InitSpecEmit ==
  /\ InitEngine /\ InitReg /\ InitConc /\ InitSave /\ InitPin /\ InitMerkle
  /\ InitCompile /\ InitMd /\ InitCli /\ InitEmitInputs /\ InitCe /\ InitS1

SpecEmit == InitSpecEmit /\ [][NextEmit]_vars

\* ------------------------------------------------------------------------
\* ConstraintEngine.evaluate on the matches of one request
\* ------------------------------------------------------------------------
Evaluate ==
  /\ ce_controlling = -1
  /\ ce_controlling' = controlling(ce_matches)
  /\ UNCHANGED <<ce_matches, enginevars, regvars, concvars, savevars, pinvars, merklevars,
                 compilevars, mdvars, clivars, emitvars, s1vars>>

NextCe == Evaluate

InitSpecCe ==
  /\ InitEngine /\ InitReg /\ InitConc /\ InitSave /\ InitPin /\ InitMerkle
  /\ InitCompile /\ InitMd /\ InitCli /\ InitEmit /\ InitCeInputs /\ InitS1

SpecCe == InitSpecCe /\ [][NextCe]_vars

\* ------------------------------------------------------------------------
\* run_stage1: runs, batches and interruptions
\* ------------------------------------------------------------------------
not_s1 == <<enginevars, regvars, concvars, savevars, pinvars, merklevars, compilevars,
            mdvars, clivars, emitvars, cevars>>

\* run_stage1(..., resume) up to the loop: the resume point, and the file
\* opened with "a" when start_idx > 0 and with "w", which empties it,
\* otherwise.  A run without resume starts the work over.
Stage1Start(resume) ==
  /\ s1_run.pc \in {"idle", "interrupted"}
  /\ s1_run.pc = "idle" => resume
  /\ LET start_idx == IF resume THEN get_resume_point(s1_out, s1_cfg.overlap) ELSE 0
     IN /\ s1_run' = Stage1Run("running", start_idx)
        /\ s1_out' = IF start_idx > 0 THEN s1_out ELSE <<>>
  /\ s1_processed' = IF resume THEN s1_processed ELSE <<>>
  /\ UNCHANGED <<s1_cfg, s1_interrupts, not_s1>>

\* one turn of the while loop: the batch at curr, its claims and its
\* progress marker, then curr += step
Stage1Batch ==
  /\ s1_run.pc = "running"
  /\ s1_run.curr < s1_cfg.n
  /\ s1_out' = Append(s1_out, batch_last_sent_idx(s1_cfg, s1_run.curr))
  /\ s1_processed' = Append(s1_processed, s1_run.curr)
  /\ s1_run' = Stage1Run("running", s1_run.curr + batch_step(s1_cfg))
  /\ UNCHANGED <<s1_cfg, s1_interrupts, not_s1>>

\* the loop ends and run_stage1 returns
Stage1Return ==
  /\ s1_run.pc = "running"
  /\ s1_run.curr >= s1_cfg.n
  /\ s1_run' = Stage1Run("done", s1_run.curr)
  /\ UNCHANGED <<s1_cfg, s1_out, s1_processed, s1_interrupts, not_s1>>

\* the process is stopped between two batches, with batches still to do
Stage1Interrupt ==
  /\ s1_run.pc = "running"
  /\ s1_run.curr < s1_cfg.n
  /\ s1_processed # <<>>
  /\ s1_interrupts < MaxInterrupts
  /\ s1_interrupts' = s1_interrupts + 1
  /\ s1_run' = Stage1Run("interrupted", s1_run.curr)
  /\ UNCHANGED <<s1_cfg, s1_out, s1_processed, not_s1>>

NextS1 ==
  \/ \E resume \in BOOLEAN : Stage1Start(resume)
  \/ Stage1Batch
  \/ Stage1Return
  \/ Stage1Interrupt

InitSpecS1 ==
  /\ InitEngine /\ InitReg /\ InitConc /\ InitSave /\ InitPin /\ InitMerkle
  /\ InitCompile /\ InitMd /\ InitCli /\ InitEmit /\ InitCe /\ InitS1Inputs

SpecS1 == InitSpecS1 /\ [][NextS1]_vars

\* ------------------------------------------------------------------------
\* axm_build/merkle.py: the tree over two leaf lists
\* ------------------------------------------------------------------------
ComputeRoots ==
  /\ mk_roots = <<>>
  /\ mk_roots' = <<merkle_tree_mldsa44(mk_leaves[1]), merkle_tree_mldsa44(mk_leaves[2])>>
  /\ UNCHANGED <<mk_leaves, enginevars, regvars, concvars, savevars, pinvars, compilevars, mdvars, extravars>>

NextMerkle == ComputeRoots

InitSpecMerkle ==
  /\ InitEngine /\ InitReg /\ InitConc /\ InitSave /\ InitPin /\ InitMerkleInputs
  /\ InitCompile /\ InitMd /\ InitCli /\ InitEmit /\ InitCe /\ InitS1

SpecMerkle == InitSpecMerkle /\ [][NextMerkle]_vars

\* ------------------------------------------------------------------------
\* The generic compiler: one call of compile_generic_shard
\* ------------------------------------------------------------------------
Compile ==
  /\ cc_out = NotCompiled
  /\ cc_out' = compile_generic_shard(cc_in)
  /\ UNCHANGED <<cc_in, enginevars, regvars, concvars, savevars, pinvars, merklevars, mdvars, extravars>>

NextCompile == Compile

InitSpecCompile ==
  /\ InitEngine /\ InitReg /\ InitConc /\ InitSave /\ InitPin /\ InitMerkle
  /\ InitCompileInputs /\ InitMd /\ InitCli /\ InitEmit /\ InitCe /\ InitS1

SpecCompile == InitSpecCompile /\ [][NextCompile]_vars

\* ------------------------------------------------------------------------
\* The Merkle root of a directory, by the builder and by the verifier
\* ------------------------------------------------------------------------
BuilderRoot ==
  /\ md_build = NoRoot
  /\ md_build' = builder_merkle_root(md_in.dir, md_in.suite)
  /\ UNCHANGED <<md_in, md_verify, enginevars, regvars, concvars, savevars, pinvars,
                 merklevars, compilevars, extravars>>

VerifierRoot ==
  /\ md_verify = NoRoot
  /\ md_verify' = verifier_merkle_root(md_in.dir, md_in.suite)
  /\ UNCHANGED <<md_in, md_build, enginevars, regvars, concvars, savevars, pinvars,
                 merklevars, compilevars, extravars>>

NextMd == BuilderRoot \/ VerifierRoot

InitSpecMd ==
  /\ InitEngine /\ InitReg /\ InitConc /\ InitSave /\ InitPin /\ InitMerkle
  /\ InitCompile /\ InitMdInputs /\ InitCli /\ InitEmit /\ InitCe /\ InitS1

SpecMd == InitSpecMd /\ [][NextMd]_vars

\* ------------------------------------------------------------------------
\* Properties of the mount runtime
\* ------------------------------------------------------------------------
PairOf(sp) == <<sp.shard_id, sp.merkle_root>>
PairAt(path) == <<Disk(path).shard_id, Disk(path).merkle_root>>
PairMounted(path) == \E sp \in mount_specs : PairOf(sp) = PairAt(path)
IsMountStep == lastOp'.op = "mount"

\* C1: a mount of a shard whose (shard_id, merkle_root) pair is currently
\* mounted leaves the sessions and the registered views as they are and, for
\* a shard that verifies, returns the existing session; no two sessions ever
\* have the same pair.
C1_RemountReturnsExisting ==
  /\ [](\A s1, s2 \in mount_specs : PairOf(s1) = PairOf(s2) => s1 = s2)
  /\ [][ (IsMountStep /\ PairMounted(lastOp'.path)) =>
           /\ mount_specs' = mount_specs
           /\ views' = views
           /\ lastOp'.ok =>
                /\ lastOp'.ret \in SpecIds(mount_specs)
                /\ PairOf(SpecOf(mount_specs, lastOp'.ret)) = PairAt(lastOp'.path)
           /\ (Disk(lastOp'.path).format = "genesis" /\ Disk(lastOp'.path).verify = "PASS"
                 /\ lastOp'.path \notin removed) => lastOp'.ok ]_vars

\* the already-mounted shard was mounted again from another transport
C1_Witness ==
  /\ lastOp.op = "mount" /\ lastOp.deduped /\ lastOp.ok
  /\ \E sp \in mount_specs : sp.mount_id = lastOp.ret /\ sp.source_path # lastOp.path

VerifyFails(path) == Disk(path).format \in {"genesis", "clarion"} /\ Disk(path).verify = "FAIL"

C3_OnlySelectReachesEngine ==
  (lastOp.op = "query" /\ lastOp.handed) =>
     \A i \in 1..Len(SplitStatements(lastOp.sql, <<>>)) :
        IsSelectStatement(SplitStatements(lastOp.sql, <<>>)[i])

\* C4 as claimed: a query call, whatever its outcome, leaves the sessions
\* and the registered views (and what each reads) unchanged.
C4_QueryKeepsMountState ==
  [][ lastOp'.op = "query" => (mount_specs' = mount_specs /\ views' = views) ]_vars

SessionDirs(mount_id) == {m.dir : m \in {x \in mount_dirs : x.mount_id = mount_id}}
ListedIds(specs) == {catalog_json(specs)[i].mount_id : i \in 1..Len(catalog_json(specs))}

\* C5: after unmount of a mounted session none of its views is registered,
\* its decrypted directory is gone and list_mounts no longer has it.
C5_UnmountReleases ==
  [][ (lastOp'.op = "unmount" /\ lastOp'.mid \in SpecIds(mount_specs)) =>
        /\ SpecOf(mount_specs, lastOp'.mid).tables \cap ViewNames(views') = {}
        /\ SessionDirs(lastOp'.mid) \cap temp_dirs' = {}
        /\ lastOp'.mid \notin ListedIds(mount_specs') ]_vars

\* a session mounted from an envelope was unmounted while another one stays
C5_Witness ==
  /\ lastOp.op = "unmount" /\ lastOp.logged = <<"unmount">>
  /\ \E i \in 1..Len(cat_mounts) :
        /\ cat_mounts[i].mount_id = lastOp.mid
        /\ cat_mounts[i].transport = "clarion" /\ cat_mounts[i].status = "stopped"
  /\ temp_dirs = {}
  /\ lastOp.mid \notin SpecIds(mount_specs) /\ mount_specs # {}

\* C6: sessions of different (shard_id, merkle_root) pairs have different
\* mount_ids and no view name in common, list_mounts returns every session,
\* and a successful mount of a shard yields a session of that shard's pair.
C6_DistinctMountsNoClash ==
  /\ \A s1, s2 \in mount_specs :
       PairOf(s1) # PairOf(s2) =>
         /\ s1.mount_id # s2.mount_id
         /\ s1.tables \cap s2.tables = {}
         /\ {s1.mount_id, s2.mount_id} \subseteq ListedIds(mount_specs)
  /\ Len(catalog_json(mount_specs)) = Cardinality(mount_specs)
  /\ (lastOp.op = "mount" /\ lastOp.ok) =>
       \E sp \in mount_specs : sp.mount_id = lastOp.ret /\ PairOf(sp) = PairAt(lastOp.path)

C6_Witness ==
  \E s1, s2 \in mount_specs :
     /\ PairOf(s1) # PairOf(s2)
     /\ s1.tables # {} /\ s2.tables # {}
     /\ Len(catalog_json(mount_specs)) = 2

AliasSet(e) == {e.aliases[k] : k \in 1..Len(e.aliases)}

\* C9 as claimed: no alias string is owned by two distinct artifacts.
C9_AliasHasOneOwner ==
  \A i, j \in 1..Len(registry) :
     i # j => AliasSet(registry[i]) \cap AliasSet(registry[j]) = {}

IsPrefix(s, t) == Len(s) <= Len(t) /\ SubSeq(t, 1, Len(s)) = s

\* C10: every step keeps each artifact and extends its history at the end
\* only, so an earlier history is a prefix of every later one; a successful
\* set_current appends exactly one entry, the new current shard, to the
\* history of the artifact it names and leaves the other histories alone.
C10_HistoryAppendOnly ==
  [][ /\ Len(registry) <= Len(registry')
      /\ \A i \in 1..Len(registry) :
            /\ registry'[i].name = registry[i].name
            /\ IsPrefix(registry[i].history, registry'[i].history)
            /\ list_history(registry', registry[i].name) = registry'[i].history
      /\ (lastReg'.op = "set_current" /\ lastReg'.ok) =>
            LET t == find_with_name(registry, lastReg'.name)
            IN /\ t # 0
               /\ registry'[t].history =
                    Append(registry[t].history,
                           [shard_id |-> lastReg'.shard_id, reason |-> "r"])
               /\ \A i \in 1..Len(registry) :
                     i # t => registry'[i].history = registry[i].history ]_vars

\* set_current through an alias moved an artifact to a second shard
C10_Witness ==
  /\ lastReg.op = "set_current" /\ lastReg.ok /\ lastReg.name = <<"latest">>
  /\ \E i \in 1..Len(registry) :
        /\ Len(registry[i].history) = 2
        /\ registry[i].history[1].shard_id # registry[i].history[2].shard_id
        /\ registry[i].current = registry[i].history[2].shard_id

\* ------------------------------------------------------------------------
\* Properties of the engine under concurrent callers
\* ------------------------------------------------------------------------
\* C7 as claimed: every step that changes the session tables, the views or
\* the catalog (the mounts table and the system events) is taken by the
\* thread that holds the engine lock while it takes the step.
C7_MutationsUnderLock ==
  [][ (\/ mount_specs' # mount_specs
       \/ claims_idx' # claims_idx
       \/ views' # views
       \/ cat_mounts' # cat_mounts
       \/ system_events' # system_events)
      => lock = actor' ]_vars

\* C11: add_artifact with a name that is already an artifact fails, and
\* neither the registry document (the existing artifact's current pointer,
\* aliases and history included) nor the registry file changes.
C11_AddExistingNameFails ==
  [][ (/\ lastReg'.op = "add_artifact"
        /\ \E i \in 1..Len(registry) : registry[i].name = lastReg'.name)
      => /\ ~lastReg'.ok
         /\ registry' = registry
         /\ reg_file' = reg_file ]_vars

\* a second add_artifact, with a valid shard id, for an artifact that has an
\* alias and a history of two entries
C11_Witness ==
  /\ lastReg.op = "add_artifact" /\ ~lastReg.ok /\ SHARD_ID_RE(lastReg.shard_id)
  /\ \E i \in 1..Len(registry) :
        /\ registry[i].name = lastReg.name
        /\ Len(registry[i].history) = 2
        /\ registry[i].aliases # <<>>
        /\ registry[i].current # lastReg.shard_id

\* ------------------------------------------------------------------------
\* Properties of the registry file
\* ------------------------------------------------------------------------
\* C12 as claimed: at every point the registry file holds a complete
\* document, never a partial or an empty one.
C12_FileNeverPartial == json_parses(disk)

\* ------------------------------------------------------------------------
\* Properties of the lockfile
\* ------------------------------------------------------------------------
\* C13: once pin has written the lockfile, resolving a pinned ref with the
\* lockfile gives the shard id the ref had when pin ran, after any sequence
\* of set_current, add_alias and add_artifact calls.
C13_PinnedResolveIsFrozen ==
  \A p \in pinned : cli_resolve(registry, lockfile, TRUE, p.ref) = p.shard_id

\* after the pin, set_current moved a pinned ref to another shard in the
\* registry
C13_Witness ==
  /\ lastReg.op = "set_current" /\ lastReg.ok
  /\ \E p \in pinned :
        /\ ~SHARD_ID_RE(p.ref)
        /\ resolve(registry, p.ref) # p.shard_id
        /\ cli_resolve(registry, lockfile, FALSE, p.ref) = resolve(registry, p.ref)

\* ------------------------------------------------------------------------
\* Properties of the Merkle tree
\* ------------------------------------------------------------------------
\* C20: under suite axm-blake3-mldsa44, with a collision-free hash, two
\* different ordered lists of leaves never have the same root; an odd node
\* is carried up unchanged, so an odd-length list and the list with its
\* last leaf appended once more have different roots.
C20_RootDeterminesLeaves ==
  mk_roots # <<>> =>
    /\ (mk_roots[1] = mk_roots[2] => mk_leaves[1] = mk_leaves[2])
    /\ (/\ Len(mk_leaves[1]) % 2 = 1
        /\ mk_leaves[2] = Append(mk_leaves[1], mk_leaves[1][Len(mk_leaves[1])]))
       => mk_roots[1] # mk_roots[2]

\* three leaves against the same three with the last one repeated
C20_Witness ==
  /\ mk_roots # <<>>
  /\ Len(mk_leaves[1]) = 3
  /\ mk_leaves[2] = Append(mk_leaves[1], mk_leaves[1][3])
  /\ mk_roots[1] = NodeDigest(NodeDigest(mk_leaves[1][1], mk_leaves[1][2]), mk_leaves[1][3])

\* ------------------------------------------------------------------------
\* Claims about the generic compiler
\* ------------------------------------------------------------------------
Compiled == cc_out.result # "none"

InvalidCandidate(c) ==
  \/ Strip(Get(c, "subject", <<>>)) = <<>>
  \/ Strip(Get(c, "predicate", <<>>)) = <<>>
  \/ Get(c, "object_type", "entity") \notin VALID_OBJECT_TYPES
  \/ Get(c, "tier", 0) \notin VALID_TIERS

\* C17: a candidate with an object_type outside the enum, a tier outside
\* 0..4 or a missing subject or predicate aborts the build: compile does not
\* report success and writes no manifest.
C17_InvalidCandidateAborts ==
  (Compiled /\ \E i \in 1..Len(cc_in.candidates) : InvalidCandidate(cc_in.candidates[i]))
    => (cc_out.result # "True" /\ ManifestFile \notin cc_out.written)

\* C16: if the evidence string of any candidate of the stream occurs more
\* than once in the normalized source, compile leaves with the ambiguous
\* evidence error and writes no table, manifest or signature; no span row
\* is ever written for an evidence string that occurs more than once.
C16_AmbiguousEvidenceFails ==
  Compiled =>
    /\ (\E i \in 1..Len(cc_in.candidates) :
          /\ cand_evidence(cc_in.candidates[i]) # <<>>
          /\ CountOcc(normalize_source_text(cc_in.source),
                      cand_evidence(cc_in.candidates[i])) > 1)
       => /\ cc_out.result = "raise"
          /\ cc_out.exit = "Ambiguous evidence"
          /\ cc_out.written = {SourceFile}
    /\ \A k \in 1..Len(cc_out.spans) :
         CountOcc(normalize_source_text(cc_in.source), cc_out.spans[k].text) = 1

EntityIds == {cc_out.entities[i].entity_id : i \in 1..Len(cc_out.entities)}
ClaimIds == {cc_out.claims[i].claim_id : i \in 1..Len(cc_out.claims)}

\* C18: in the tables compile writes, every claims.subject and every
\* entity-typed claims.object is an entity_id of the entities table, and
\* every provenance.claim_id is a claim_id of the claims table.
C18_ReferentialIntegrity ==
  Compiled =>
    /\ \A k \in 1..Len(cc_out.claims) :
         /\ cc_out.claims[k].subject \in EntityIds
         /\ cc_out.claims[k].object_type = "entity"
              => cc_out.claims[k].object \in EntityIds
    /\ \A k \in 1..Len(cc_out.provenance) :
         cc_out.provenance[k].claim_id \in ClaimIds

\* C19: the manifest written by compile has the key "extensions" exactly
\* when that compile wrote at least one file under ext/, and then the key
\* lists those files.
C19_ExtensionsIffExtFile ==
  (Compiled /\ ManifestFile \in cc_out.written) =>
    /\ "extensions" \in DOMAIN cc_out.manifest
         <=> \E f \in cc_out.written : f[1] = "ext"
    /\ "extensions" \in DOMAIN cc_out.manifest
         => cc_out.manifest["extensions"]
              = {f[2] : f \in {g \in cc_out.written : g[1] = "ext"}}

C19_Witness ==
  /\ Compiled
  /\ "extensions" \in DOMAIN cc_out.manifest
  /\ LocatorsFile \in cc_out.written
  /\ cc_in.out_dir # {}

\* ------------------------------------------------------------------------
\* Claims about the registry, continued
\* ------------------------------------------------------------------------
\* C27: after any sequence of add_artifact and set_current calls every
\* artifact has a non-empty history, and its current shard_id is the
\* shard_id of the last history entry.
C27_CurrentIsLastHistory ==
  \A i \in 1..Len(registry) :
     /\ registry[i].history # <<>>
     /\ registry[i].current = registry[i].history[Len(registry[i].history)].shard_id

\* set_current moved an artifact from its first shard to another one
C27_Witness ==
  /\ lastReg.op = "set_current" /\ lastReg.ok
  /\ \E i \in 1..Len(registry) :
        /\ Len(registry[i].history) = 2
        /\ registry[i].history[1].shard_id # registry[i].current
        /\ registry[i].current = lastReg.shard_id

RegRefs == ArtifactNames \cup AliasInputs

\* C28: add_artifact and add_alias never change the shard_id that a ref
\* resolvable before the call resolves to; set_current changes it only for
\* the refs of the artifact it names.
C28_ResolutionOnlyMovesBySetCurrent ==
  [][ \A ref \in RegRefs :
        find_with_name(registry, ref) # 0 =>
          /\ lastReg'.op \in {"add_artifact", "add_alias"}
               => resolve(registry', ref) = resolve(registry, ref)
          /\ (/\ lastReg'.op = "set_current"
              /\ find_with_name(registry, ref) # find_with_name(registry, lastReg'.name))
               => resolve(registry', ref) = resolve(registry, ref) ]_vars

\* ------------------------------------------------------------------------
\* Claims about the mount runtime, continued
\* ------------------------------------------------------------------------
\* C26: boot() mounts no session whose catalog row was 'stopped' (set by an
\* explicit unmount) when boot was called.
C26_BootSkipsStopped ==
  [][ lastOp'.op = "boot" =>
        \A i \in 1..Len(cat_mounts) :
           cat_mounts[i].status = "stopped"
             => cat_mounts[i].mount_id \notin SpecIds(mount_specs') ]_vars

\* C25: every view registered in the engine is listed by exactly one stored
\* mount session, and every view listed by a stored session is registered.
C25_ViewsMatchSessions ==
  /\ \A v \in ViewNames(views) :
        Cardinality({sp \in mount_specs : v \in sp.tables}) = 1
  /\ \A sp \in mount_specs : sp.tables \subseteq ViewNames(views)

\* ------------------------------------------------------------------------
\* Claims about the Merkle root of a directory
\* ------------------------------------------------------------------------
HasSymlink(dir) == \E e \in dir : e.kind \in {"link", "dirlink"}

\* C21: for a directory that holds a symbolic link, to a file or to a
\* directory, computing the Merkle root ends in an error, in the builder
\* and in the verifier.
C21_SymlinkRefused ==
  HasSymlink(md_in.dir) =>
    /\ md_build # NoRoot => md_build.err
    /\ md_verify # NoRoot => md_verify.err

WithinLimits(dir) ==
  /\ \A e \in dir : e.size <= MAX_MERKLE_FILE_BYTES
  /\ Cardinality(dir) <= MAX_MERKLE_FILES
  /\ SumSizes(dir) <= MAX_MERKLE_TOTAL_BYTES

\* C24: for a directory without symbolic links and within the limits, and
\* for either suite, the verifier returns a root and it is the root the
\* builder returns.
C24_BuilderAndVerifierAgree ==
  (/\ ~HasSymlink(md_in.dir) /\ WithinLimits(md_in.dir)
   /\ md_build # NoRoot /\ md_verify # NoRoot)
    => /\ ~md_build.err /\ ~md_verify.err
       /\ md_build.root = md_verify.root

\* three hashed files next to the manifest and the signature, legacy suite
C24_Witness ==
  /\ md_build # NoRoot /\ md_verify # NoRoot
  /\ ~md_verify.err
  /\ md_in.suite = SUITE_ED25519
  /\ Cardinality(md_in.dir) = 5
  /\ ~HasSymlink(md_in.dir) /\ WithinLimits(md_in.dir)
  /\ \E e \in md_in.dir : e.rel = <<"sig", "manifest.sig">>

\* ------------------------------------------------------------------------
\* Claims about the verify and mount commands
\* ------------------------------------------------------------------------

\* C22: a verify or mount command whose ref resolved, through the registry
\* or through a lockfile, to a shard id with no directory in the shard store
\* ends with exit code 4.
C22_MissingShardExits4 ==
  (/\ cli_last.cmd \in {"verify", "mount"}
   /\ cli_last.shard_id # <<>>
   /\ ~shard_path_exists(cli_store, cli_last.shard_id))
    => cli_last.exit = 4

\* ------------------------------------------------------------------------
\* Claims about the emitter
\* ------------------------------------------------------------------------
Tiles(content, entries) ==
  /\ entries[1].byte_start = 0
  /\ \A i \in 2..Len(entries) : entries[i].byte_start = entries[i - 1].byte_end + 1
  /\ entries[Len(entries)].byte_end + 1 = Len(content)
  /\ \A i \in 1..Len(entries) :
       /\ entries[i].byte_end <= Len(content)
       /\ SubSeq(content, entries[i].byte_start + 1, entries[i].byte_end)
            = Utf8(entries[i].text)

\* C23: after one or more successful emit_segment calls and close, the
\* provenance entries tile source.txt (first entry at byte 0, each later
\* one at the previous byte_end + 1, last byte_end + 1 the file size, each
\* range holding its segment's UTF-8 text) and validate_emission answers
\* valid.
C23_EntriesTileSource ==
  (em_closed /\ provenance_entries # <<>>)
    => /\ Tiles(source_txt, provenance_entries)
       /\ em_valid # "invalid"

\* ------------------------------------------------------------------------
\* Claims about the constraint engine
\* ------------------------------------------------------------------------

\* C29: when constraints match a request, the controlling constraint has a
\* type that no other match precedes in the order ROE, FSCM, ACM, WCS,
\* FPCON, EMCON, JRFL, GUIDANCE; a matching ROE controls over a matching
\* FSCM.
C29_ControllingIsEarliestType ==
  (ce_controlling # -1 /\ ce_matches # <<>>)
    => /\ ce_controlling \in 1..Len(ce_matches)
       /\ \A j \in 1..Len(ce_matches) :
            prec_index(ce_matches[ce_controlling]) <= prec_index(ce_matches[j])

\* ------------------------------------------------------------------------
\* Claims about Stage 1
\* ------------------------------------------------------------------------

\* C30: across interruptions between batches and runs with resume, the
\* batches processed are those of an uninterrupted run, in its order and
\* each once: the i-th batch processed starts at (i - 1) * step.
C30_ResumeProcessesEachBatchOnce ==
  \A i \in 1..Len(s1_processed) : s1_processed[i] = (i - 1) * batch_step(s1_cfg)

====
